---- MODULE Spec2Model ----
(***************************************************************************)
(* A model of the ReCon engine (src/src/recon/model.py): session setup     *)
(* with typed failure classification, remote command execution, the three  *)
(* cache-aware enumerators and the reachability sweep.                     *)
(*                                                                         *)
(* The engine's fields are the variables.  Every public method is one      *)
(* action that runs the whole method, with the exception of                *)
(* enumerate_nodes, whose sweep loop takes one step per probed address so  *)
(* that the order of probes, appends and notifications can be observed.    *)
(* What a call does that an observer can see (events handed to             *)
(* _call_handler, remote commands handed to the transport, rewrites of     *)
(* the store) is recorded, in order, in `log`, which is emptied when the   *)
(* next call starts.                                                       *)
(***************************************************************************)
EXTENDS Integers, Sequences, FiniteSets, TLC

\* ------------------------------------------------------------------ bounds

\* Number of public calls made on one engine in a behaviour.
MaxCalls == 2

\* Number of those calls that are calls of setup.
MaxSetups == 1

\* Number of toggles of the tunnel, made in between those calls.
MaxToggles == 3

\* Number of consoles and shells spawned, in between those calls.
MaxSpawns == 2

\* ------------------------------------------------------------------ values

None == "None"

Hosts == {"h1", "h2"}
Users == {"u1", "u2"}

\* The (address, username) pairs setup is called with
Logins == {<<"h1", "u1">>, <<"h1", "u2">>, <<"h2", "u1">>}

RECURSIVE Pow2(_)
Pow2(n) == IF n = 0 THEN 1 ELSE 2 * Pow2(n - 1)

\* An IPv4 address is its 32-bit integer value.
IP(a, b, c, d) == ((a * 256 + b) * 256 + c) * 256 + d

\* ipaddress.IPv4Network(f"{ip}/{mask}", False): the host bits are masked off.
\* The dotted mask is given by its prefix length.
IPv4Network(ip, prefixlen) ==
    [addr |-> ip - (ip % Pow2(32 - prefixlen)), prefixlen |-> prefixlen]

network_address(net) == net.addr
broadcast_address(net) == net.addr + Pow2(32 - net.prefixlen) - 1

\* <<lo, lo+1, ..., hi>>, empty when hi < lo
Range(lo, hi) == [i \in 1..(IF hi >= lo THEN hi - lo + 1 ELSE 0) |-> lo + i - 1]

\* A plausible slip: the whole block of addresses, ends included.
hosts_all(net) == Range(network_address(net), broadcast_address(net))

\* IPv4Network.hosts(): the usable hosts in ascending order; a /31 yields both
\* of its addresses and a /32 its single address.
hosts(net) ==
    IF net.prefixlen = 31 THEN Range(network_address(net), broadcast_address(net))
    ELSE IF net.prefixlen = 32 THEN <<network_address(net)>>
    ELSE Range(network_address(net) + 1, broadcast_address(net) - 1)

InNetwork(a, base, prefixlen) ==
    a - (a % Pow2(32 - prefixlen)) = base

\* IPv4Network.is_loopback: inside 127.0.0.0/8
is_loopback(net) ==
    /\ InNetwork(network_address(net), IP(127, 0, 0, 0), 8)
    /\ InNetwork(broadcast_address(net), IP(127, 0, 0, 0), 8)

\* IPv4Network.is_private, for the private blocks below 128.0.0.0
is_private(net) ==
    \E base \in {IP(0, 0, 0, 0), IP(10, 0, 0, 0), IP(127, 0, 0, 0)} :
        /\ InNetwork(network_address(net), base, 8)
        /\ InNetwork(broadcast_address(net), base, 8)

\* ---------------------------------------------------------- text of lines

\* A line of remote output is a sequence of symbols; " " is white space.
WS == {" "}

RECURSIVE lstrip(_)
lstrip(s) == IF s # <<>> /\ Head(s) \in WS THEN lstrip(Tail(s)) ELSE s

RECURSIVE rstrip(_)
rstrip(s) ==
    IF s # <<>> /\ s[Len(s)] \in WS THEN rstrip(SubSeq(s, 1, Len(s) - 1)) ELSE s

\* str.strip()
strip(s) == rstrip(lstrip(s))

Map(s, F(_)) == [i \in 1..Len(s) |-> F(s[i])]

\* A plausible slip: the header line is taken for a console.
parse_consoles_with_header(output) ==
    SelectSeq(Map(output, strip), LAMBDA l : l # <<>>)

\* [com.strip() for com in output.splitlines()[1:] if com.strip()]
parse_consoles(output) ==
    LET body == IF output = <<>> THEN <<>> ELSE Tail(output)
    IN  SelectSeq(Map(body, strip), LAMBDA l : l # <<>>)

\* A plausible slip: the loopback network is kept.
parse_networks_with_loopback(matches) ==
    SelectSeq(Map(matches, LAMBDA m : IPv4Network(m[1], m[2])),
           LAMBDA n : is_private(n))

\* The networks appended for the (ip, mask) pairs that re.findall returns
parse_networks(matches) ==
    SelectSeq(Map(matches, LAMBDA m : IPv4Network(m[1], m[2])),
           LAMBDA n : is_private(n) /\ ~is_loopback(n))

\* ------------------------------------------------------------- exceptions

\* The direct base class of each exception class that can occur
\* (socket.error and IOError are OSError; socket.timeout is TimeoutError).
Parent(cls) ==
    CASE cls = "AuthenticationException" -> "SSHException"
      [] cls = "SSHException" -> "Exception"
      [] cls = "TimeoutError" -> "OSError"
      [] cls = "gaierror" -> "OSError"
      [] cls = "NoValidConnectionsError" -> "OSError"
      [] cls = "PermissionError" -> "OSError"
      [] cls = "OSError" -> "Exception"
      [] cls = "EOFError" -> "Exception"
      [] cls = "UnicodeDecodeError" -> "Exception"
      [] cls = "AttributeError" -> "Exception"
      [] cls = "ReConAuthenticationError" -> "ReConSSHError"
      [] cls = "ReConNetworkError" -> "ReConSSHError"
      [] cls = "ReConSSHError" -> "ReConError"
      [] cls = "ReConCommandError" -> "ReConError"
      [] cls = "ReConError" -> "Exception"
      [] OTHER -> "BaseException"

RECURSIVE IsInstance(_, _)
IsInstance(cls, base) ==
    IF cls = base THEN TRUE
    ELSE IF cls \in {"none", "BaseException"} THEN FALSE
    ELSE IsInstance(Parent(cls), base)

\* An exception in flight: its class, what went wrong (credentials, socket,
\* protocol or other) and the step of the connect sequence that raised it.
Exc(cls, kind, site) == [cls |-> cls, kind |-> kind, site |-> site]
NoExc == Exc("none", "none", "none")

\* ----------------------------------------------------- the engine's state

VARIABLES
    host_pool,      \* ReCon.host_pool: address -> HostInfo
    store,          \* the file at HOST_DATA_PATH
    current_host,   \* ReCon.current_host, as the address of the profile in host_pool
    connected,      \* the paramiko transport is up and authenticated
    key_file,       \* ReCon._key_file: 0 is None, n the n-th temporary file
    key_files,      \* the temporary key files that exist on disk
    prompt,         \* ReCon._prompt
    tunnel_proc,    \* ReCon._ssh_tunnel_proc: 0 is None, n the n-th process launched
    procs,          \* the processes this engine has launched, in order
    log,            \* what the call in progress (or the last call) did, in order
    raised,         \* the exception that escaped the last call
    ret,            \* what the last execute_command call returned or raised
    calls,          \* the public calls made so far, by name
    todo,           \* the addresses the sweep in progress has still to probe
    sweeping,       \* a sweep is in progress
    remote,         \* what the remote host answers
    fetched,        \* history: per profile and cache, the number of entries each
                    \* completed remote fetch has brought since the cache was
                    \* last cleared
    app,            \* App of main.py: the buttons that are enabled and where each
                    \* of its threads is
    _event_handlers,\* ReCon._event_handlers: event name -> handler
    handled         \* the handlers the call in progress (or the last call) has
                    \* called, in order, each with the event it was called for

vars == <<host_pool, store, current_host, connected, key_file, key_files, prompt,
          tunnel_proc, procs, log, raised, ret, calls, todo, sweeping, remote, fetched, app,
          _event_handlers, handled>>

\* ReCon.HostInfo.__init__
HostInfo(address, username) ==
    [address |-> address, username |-> username, active |-> TRUE,
     consoles |-> <<>>, networks |-> <<>>, nodes |-> <<>>]

\* The engine as one value, so that a method is a function from engine to engine.
Eng ==
    [host_pool |-> host_pool, store |-> store, current_host |-> current_host,
     connected |-> connected, key_file |-> key_file, key_files |-> key_files,
     prompt |-> prompt, tunnel_proc |-> tunnel_proc, procs |-> procs,
     log |-> <<>>, raised |-> NoExc, fetched |-> fetched,
     _event_handlers |-> _event_handlers, handled |-> <<>>]

Install(e) ==
    \E x \in {e} :
        /\ host_pool' = x.host_pool
        /\ store' = x.store
        /\ current_host' = x.current_host
        /\ connected' = x.connected
        /\ key_file' = x.key_file
        /\ key_files' = x.key_files
        /\ prompt' = x.prompt
        /\ tunnel_proc' = x.tunnel_proc
        /\ procs' = x.procs
        /\ log' = x.log
        /\ raised' = x.raised
        /\ fetched' = x.fetched
        /\ _event_handlers' = x._event_handlers
        /\ handled' = x.handled

Emit(e, ev, arg) == [e EXCEPT !.log = Append(@, [ev |-> ev, arg |-> arg])]

Raise(e, exc) == [e EXCEPT !.raised = exc]

\* A plausible slip: an event without a handler is an error.
_call_handler_strict(e, handler, arg) ==
    IF handler \in DOMAIN e._event_handlers
    THEN [Emit(e, handler, arg) EXCEPT
             !.handled = Append(@, [by |-> e._event_handlers[handler], ev |-> handler])]
    ELSE Raise(Emit(e, handler, arg), Exc("KeyError", "other", "none"))

\* ReCon._call_handler: the handler bound to the event is called, if there is one.
_call_handler(e, handler, arg) ==
    IF handler \in DOMAIN e._event_handlers
    THEN [Emit(e, handler, arg) EXCEPT
             !.handled = Append(@, [by |-> e._event_handlers[handler], ev |-> handler])]
    ELSE Emit(e, handler, arg)

\* A plausible slip: the first handler bound to an event stays.
bind_keeps_first(e, event, handler) ==
    IF event \in DOMAIN e._event_handlers THEN e
    ELSE [e EXCEPT !._event_handlers =
             [k \in DOMAIN @ \cup {event} |-> IF k = event THEN handler ELSE @[k]]]

\* ReCon.bind
bind(e, event, handler) ==
    [e EXCEPT !._event_handlers =
        [k \in DOMAIN @ \cup {event} |-> IF k = event THEN handler ELSE @[k]]]

\* A plausible slip: start does nothing.
start_silent(e) == e

\* ReCon.start
start(e) == _call_handler(e, "initialized", <<>>)

\* ReCon._activity
_activity(e, msg) == _call_handler(e, "activity", msg)

\* str(network): dotted quad and prefix length
cidr(net) ==
    <<net.addr \div Pow2(24), (net.addr \div Pow2(16)) % 256,
      (net.addr \div Pow2(8)) % 256, net.addr % 256, net.prefixlen>>

\* IPv4Network(text) of a text that str(network) has produced
from_cidr(c) == IPv4Network(IP(c[1], c[2], c[3], c[4]), c[5])

\* A plausible slip: a network is written by its address alone, and read back
\* as a single-address network.
reduce_address_only(net) == <<net.addr \div Pow2(24), (net.addr \div Pow2(16)) % 256,
                             (net.addr \div Pow2(8)) % 256, net.addr % 256, 32>>

\* IPv4Network.__reduce__: a network is pickled as the text str(network) gives.
reduce(net) == cidr(net)

\* pickle.dump of the registry: per key the attributes of the HostInfo, its
\* networks reduced to their text.
dumps(pool) ==
    { <<k, <<pool[k].address, pool[k].username, pool[k].active, pool[k].consoles,
             [i \in DOMAIN pool[k].networks |-> reduce(pool[k].networks[i])],
             pool[k].nodes>> >> : k \in DOMAIN pool }

\* pickle.load: the HostInfo objects are rebuilt from their attributes and the
\* networks from their text.
loads(data) ==
    [k \in {x[1] : x \in data} |->
        LET v == (CHOOSE x \in data : x[1] = k)[2]
        IN  [address |-> v[1], username |-> v[2], active |-> v[3], consoles |-> v[4],
             networks |-> [i \in DOMAIN v[5] |-> from_cidr(v[5][i])],
             nodes |-> v[6]]]

\* ReCon._save_host_data: the whole registry is written over the file.  The
\* entry of the log keeps the registry as it was handed to pickle.dump.
_save_host_data(e) ==
    Emit([e EXCEPT !.store = [exists |-> TRUE, data |-> dumps(e.host_pool)]],
         "save", e.host_pool)

\* The profile current_host refers to, and an update of one of its lists
cur(e) == e.host_pool[e.current_host]
SetList(e, field, val) == [e EXCEPT !.host_pool[e.current_host][field] = val]

\* History: a fetch for the cache `field` of the current profile has brought n entries.
Fetched(e, field, n) == [e EXCEPT !.fetched[e.current_host][field] = Append(@, n)]

\* ------------------------------------------------------ remote commands

CmdConsoles == <<"wmic path Win32_SerialPort get Caption">>
CmdNetworks == <<"ipconfig">>
CmdPing(host) == <<"ping -n 1 -w 25", host>>
CmdDeploy(username) == <<"echo key > authorized_keys", username>>

\* How a remote command can end: with an exit status, with a failure of the
\* transport (paramiko.SSHException, socket.error), or with output that is not
\* UTF-8 ("decode": a console code page of the remote host).
Outcomes == {"exit0", "exit1", "exit137", "ssh", "sock", "decode"}

\* The outcomes an enumerator tells apart: success, a non-zero exit status, a
\* failure of the transport.
FetchOutcomes == {"exit0", "exit1", "ssh"}

\* How the fetch of the consoles or of the networks can end
ReplyOutcomes == FetchOutcomes \cup {"decode"}
ExitCodeOf(o) == CASE o = "exit0" -> 0 [] o = "exit1" -> 1 [] o = "exit137" -> 137

\* What exec_command and the reads of the two streams give for an outcome
Response(o, out) ==
    IF o \in {"ssh", "sock"}
    THEN [kind |-> o, output |-> <<>>, error |-> "", exit_code |-> 0]
    ELSE IF o = "decode"
    THEN [kind |-> "undecodable", output |-> <<>>, error |-> "", exit_code |-> 0]
    ELSE [kind |-> "done", output |-> out,
          error |-> IF o = "exit0" THEN "" ELSE "stderr text",
          exit_code |-> ExitCodeOf(o)]

Result(cls, command, exit_code, output, error) ==
    [raised |-> cls, command |-> command, exit_code |-> exit_code,
     output |-> output, error |-> error]
NoResult == Result("none", <<>>, 0, <<>>, "")

\* A plausible slip: the exit status is not looked at.
execute_command_ignoring_status(command, resp) ==
    IF resp.kind \in {"ssh", "sock"}
    THEN Result("ReConSSHError", <<>>, 0, <<>>, "")
    ELSE IF resp.kind = "undecodable"
    THEN Result("UnicodeDecodeError", <<>>, 0, <<>>, "")
    ELSE Result("none", command, resp.exit_code, resp.output, resp.error)

\* ReCon.execute_command: what it returns (raised = "none", with output, error and
\* exit_code) or raises (raised = the class; a ReConCommandError carries the
\* command, the exit code and the two streams).  The decode of the output is
\* inside the try block, and a UnicodeDecodeError is none of the errors caught.
execute_command(command, resp) ==
    IF resp.kind \in {"ssh", "sock"}
    THEN Result("ReConSSHError", <<>>, 0, <<>>, "")
    ELSE IF resp.kind = "undecodable"
    THEN Result("UnicodeDecodeError", <<>>, 0, <<>>, "")
    ELSE IF resp.exit_code # 0
    THEN Result("ReConCommandError", command, resp.exit_code, resp.output, resp.error)
    ELSE Result("none", command, resp.exit_code, resp.output, resp.error)

\* The call of execute_command inside a method: the command goes to the transport.
Sent(e, command, resp) == Emit(e, "exec_command", [command |-> command, resp |-> resp])

\* ------------------------------------------------------------ enumerators

\* A transport that is not up fails every command at transport level.
Possible(e, o) == e.connected \/ o = "ssh"

NoHostError == Exc("AttributeError", "other", "none")

\* An error of execute_command that the caller does not catch
Uncaught(r) == Exc(r.raised, "other", "none")

\* A plausible slip: the list is left as it is.
clear_keeps(e, field) == e

\* A plausible slip: the three lists of the profile are emptied together.
clear_profile(e, field) ==
    IF e.current_host # None
    THEN [e EXCEPT !.host_pool[e.current_host] =
                       HostInfo(cur(e).address, cur(e).username),
                   !.fetched[e.current_host][field] = <<>>]
    ELSE e

\* ReCon.clear_consoles / clear_local_networks / clear_nodes
clear(e, field) ==
    IF e.current_host # None
    THEN [SetList(e, field, <<>>) EXCEPT !.fetched[e.current_host][field] = <<>>]
    ELSE e

\* A plausible slip: the store is rewritten whether the fetch succeeded or not.
fetch_consoles_saves_always(e, o) ==
    LET resp == Response(o, remote.consoles)
        e1 == Sent(_activity(e, "Enumerating consoles..."), CmdConsoles, resp)
        r == execute_command(CmdConsoles, resp)
        lines == parse_consoles(r.output)
        e2 == IF r.raised = "none"
              THEN _save_host_data(
                       _activity(Fetched(SetList(e1, "consoles",
                                                 cur(e1).consoles \o lines),
                                         "consoles", Len(lines)),
                                 IF lines # <<>> THEN "Found serial console(s)"
                                 ELSE "No serial consoles found"))
              ELSE _save_host_data(_activity(e1, "Console enumeration failed"))
    IN  IF r.raised = "UnicodeDecodeError" THEN Raise(e1, Uncaught(r))
        ELSE _call_handler(e2, "consoles_loaded", cur(e2).consoles)

\* The branch of enumerate_consoles for an empty cache: the fetch, and the
\* loaded event unless the reply could not be decoded
fetch_consoles(e, o) ==
    LET resp == Response(o, remote.consoles)
        e1 == Sent(_activity(e, "Enumerating consoles..."), CmdConsoles, resp)
        r == execute_command(CmdConsoles, resp)
        lines == parse_consoles(r.output)
        e2 == IF r.raised = "none"
              THEN _save_host_data(
                       _activity(Fetched(SetList(e1, "consoles",
                                                 cur(e1).consoles \o lines),
                                         "consoles", Len(lines)),
                                 IF lines # <<>> THEN "Found serial console(s)"
                                 ELSE "No serial consoles found"))
              ELSE _activity(e1, "Console enumeration failed")
    IN  IF r.raised = "UnicodeDecodeError" THEN Raise(e1, Uncaught(r))
        ELSE _call_handler(e2, "consoles_loaded", cur(e2).consoles)

\* A plausible slip: the cache is ignored and the remote side always asked.
enumerate_consoles_uncached(e, o) ==
    IF e.current_host = None THEN Raise(e, NoHostError) ELSE fetch_consoles(e, o)

\* ReCon.enumerate_consoles
enumerate_consoles(e, o) ==
    IF e.current_host = None THEN Raise(e, NoHostError)
    ELSE IF cur(e).consoles = <<>> THEN fetch_consoles(e, o)
    ELSE _call_handler(e, "consoles_loaded", cur(e).consoles)

\* The branch of enumerate_local_networks for an empty cache
fetch_local_networks(e, o) ==
    LET resp == Response(o, remote.ipconfig)
        e1 == Sent(_activity(e, "Enumerating local networks..."), CmdNetworks, resp)
        r == execute_command(CmdNetworks, resp)
        nets == parse_networks(r.output)
        e2 == IF r.raised = "none"
              THEN _save_host_data(
                       Fetched(SetList(e1, "networks", cur(e1).networks \o nets),
                               "networks", Len(nets)))
              ELSE _activity(e1, "Local network enumeration failed")
    IN  IF r.raised = "UnicodeDecodeError" THEN Raise(e1, Uncaught(r))
        ELSE _call_handler(e2, "local_networks_loaded", Map(cur(e2).networks, cidr))

\* A plausible slip: the cache is ignored and the remote side always asked.
enumerate_local_networks_uncached(e, o) ==
    IF e.current_host = None THEN Raise(e, NoHostError) ELSE fetch_local_networks(e, o)

\* ReCon.enumerate_local_networks
enumerate_local_networks(e, o) ==
    IF e.current_host = None THEN Raise(e, NoHostError)
    ELSE IF cur(e).networks = <<>> THEN fetch_local_networks(e, o)
    ELSE _call_handler(e, "local_networks_loaded", Map(cur(e).networks, cidr))

\* enumerate_nodes with a populated cache: node_found for every cached entry, in
\* order, then nodes_loaded.  The handler of node_found sees the node and the cache.
RECURSIVE replay(_, _)
replay(e, nodes) ==
    IF nodes = <<>> THEN e
    ELSE replay(_call_handler(e, "node_found",
                              [node |-> Head(nodes), cache |-> cur(e).nodes]),
                Tail(nodes))

\* A plausible slip: nodes_loaded comes first, the replay after it.
enumerate_nodes_cached_loaded_first(e) ==
    replay(_call_handler(e, "nodes_loaded", <<>>), cur(e).nodes)

enumerate_nodes_cached(e) ==
    _call_handler(replay(e, cur(e).nodes), "nodes_loaded", <<>>)

\* A plausible slip: the guard goes through the save at the end of the sweep.
enumerate_nodes_guard_saves(e) ==
    _call_handler(_save_host_data(_activity(e, "No networks available to enumerate nodes.")),
                  "nodes_loaded", <<>>)

\* enumerate_nodes with an empty cache and no network: the guard
enumerate_nodes_guard(e) ==
    _call_handler(_activity(e, "No networks available to enumerate nodes."),
                  "nodes_loaded", <<>>)

\* A plausible slip: the store is rewritten after every node that is found.
probe_saves(e, host, o) ==
    LET resp == Response(o, <<>>)
        e1 == Sent(_activity(e, <<"Querying...", host>>), CmdPing(host), resp)
        r == execute_command(CmdPing(host), resp)
    IN  IF r.raised = "none"
        THEN LET e2 == _call_handler(e1, "node_found",
                                     [node |-> host, cache |-> cur(e1).nodes])
             IN  _save_host_data(SetList(e2, "nodes", Append(cur(e2).nodes, host)))
        ELSE IF r.raised = "ReConCommandError" THEN e1
        ELSE _activity(e1, "Node enumeration failed")

\* A plausible slip: a probe that exits non-zero is reported like a failure of
\* the transport.
probe_reports_exit(e, host, o) ==
    LET resp == Response(o, <<>>)
        e1 == Sent(_activity(e, <<"Querying...", host>>), CmdPing(host), resp)
        r == execute_command(CmdPing(host), resp)
    IN  IF r.raised = "none"
        THEN LET e2 == _call_handler(e1, "node_found",
                                     [node |-> host, cache |-> cur(e1).nodes])
             IN  SetList(e2, "nodes", Append(cur(e2).nodes, host))
        ELSE _activity(e1, "Node enumeration failed")

\* One turn of the sweep loop of enumerate_nodes, for the address `host`
probe(e, host, o) ==
    LET resp == Response(o, <<>>)
        e1 == Sent(_activity(e, <<"Querying...", host>>), CmdPing(host), resp)
        r == execute_command(CmdPing(host), resp)
    IN  IF r.raised = "none"
        THEN LET e2 == _call_handler(e1, "node_found",
                                     [node |-> host, cache |-> cur(e1).nodes])
             IN  SetList(e2, "nodes", Append(cur(e2).nodes, host))
        ELSE IF r.raised = "ReConCommandError" THEN e1
        ELSE _activity(e1, "Node enumeration failed")

\* The end of the sweep: one rewrite of the store, then nodes_loaded
sweep_end(e) ==
    _call_handler(_save_host_data(Fetched(e, "nodes", Len(cur(e).nodes))),
                  "nodes_loaded", <<>>)

\* ---------------------------------------------------------------- connect

\* What happens in one run of the connect sequence.  site names the step that
\* raises ("none": no step does) and exc what it raises; prompt is what the read
\* of the prompt gives, sshdir whether the .ssh directory is there or can be made
\* ("exists") or cannot be made ("fails"), deploy how the authorized_keys command
\* ends.
Plan(site, exc, prompt_read, sshdir, deploy) ==
    [site |-> site, exc |-> exc, prompt |-> prompt_read, sshdir |-> sshdir,
     deploy |-> deploy]

FailPlans ==
    { Plan(x.site, x, "text", "exists", "exit0") : x \in
        { Exc("AuthenticationException", "credentials", "connect"),
          Exc("TimeoutError", "socket", "connect"),
          Exc("NoValidConnectionsError", "socket", "connect"),
          Exc("SSHException", "protocol", "connect"),
          Exc("EOFError", "other", "connect"),
          Exc("PermissionError", "other", "save"),
          Exc("SSHException", "protocol", "prompt"),
          Exc("PermissionError", "other", "mkstemp"),
          Exc("OSError", "other", "write_key") } }

OkPlans ==
    { Plan("none", NoExc, "text", "exists", "exit0"),
      Plan("none", NoExc, "timeout", "exists", "exit0"),
      Plan("none", NoExc, "text", "fails", "exit0"),
      Plan("none", NoExc, "text", "exists", "exit1"),
      Plan("none", NoExc, "text", "exists", "ssh") }

Plans == FailPlans \cup OkPlans

\* One run of setup as the environment lets it go: the connect sequence, and how
\* the console fetch (oc) and the network fetch (on) end if they are made.  The
\* fetches vary in the runs whose connect sequence has nothing special.
Scenarios ==
    { [plan |-> p, oc |-> "exit0", on |-> "exit0"] : p \in Plans }
    \cup { [plan |-> Plan("none", NoExc, "text", "exists", "exit0"), oc |-> a, on |-> b] :
             a, b \in FetchOutcomes }
    \cup { [plan |-> Plan("none", NoExc, "text", "exists", "exit0"), oc |-> a, on |-> b] :
             <<a, b>> \in {<<"decode", "exit0">>, <<"exit0", "decode">>} }

\* A plausible slip: the entry is assigned, whether the key is there or not.
setdefault_overwrites(pool, key, value) ==
    [k \in DOMAIN pool \cup {key} |-> IF k = key THEN value ELSE pool[k]]

\* A plausible slip: the registry is made anew with the one profile.
setdefault_alone(pool, key, value) ==
    [k \in {key} |-> IF key \in DOMAIN pool THEN pool[key] ELSE value]

\* dict.setdefault
setdefault(pool, key, value) ==
    IF key \in DOMAIN pool THEN pool
    ELSE [k \in DOMAIN pool \cup {key} |-> IF k = key THEN value ELSE pool[k]]

\* ReCon._fill_prompt: a read that times out leaves the prompt empty.
_fill_prompt(e, plan) ==
    IF plan.site = "prompt" THEN Raise(e, plan.exc)
    ELSE [e EXCEPT !.prompt = IF plan.prompt = "timeout" THEN "" ELSE "C:\\>"]

\* A plausible slip: a key that cannot be deployed ends the connect sequence
\* with the error.
_deploy_key_raising(e, plan) ==
    IF plan.site = "mkstemp" THEN Raise(e, plan.exc)
    ELSE LET f == Cardinality(e.key_files) + 1
             e1 == [e EXCEPT !.key_file = f, !.key_files = @ \cup {f}]
         IN  IF plan.site = "write_key" THEN Raise(e1, plan.exc)
             ELSE IF plan.sshdir = "fails"
             THEN Raise(e1, Exc("OSError", "other", "makedirs"))
             ELSE LET cmd == CmdDeploy(cur(e1).username)
                      resp == Response(plan.deploy, <<>>)
                      r == execute_command(cmd, resp)
                      e2 == Sent(e1, cmd, resp)
                  IN  IF r.raised = "none" THEN e2
                      ELSE Raise(e2, Exc(r.raised, "protocol", "deploy"))

\* ReCon._deploy_key
_deploy_key(e, plan) ==
    IF plan.site = "mkstemp" THEN Raise(e, plan.exc)
    ELSE LET f == Cardinality(e.key_files) + 1
             e1 == [e EXCEPT !.key_file = f, !.key_files = @ \cup {f}]
         IN  IF plan.site = "write_key" THEN Raise(e1, plan.exc)
             ELSE IF plan.sshdir = "fails"
             THEN _call_handler(e1, "fatal_error", "Failed to create .ssh directory")
             ELSE LET cmd == CmdDeploy(cur(e1).username)
                      resp == Response(plan.deploy, <<>>)
                      r == execute_command(cmd, resp)
                      e2 == Sent(e1, cmd, resp)
                  IN  IF r.raised = "none" THEN e2
                      ELSE _call_handler(e2, "fatal_error", "Failed to deploy SSH key")

\* The except clauses of _connect, in their order
_connect_except(exc) ==
    IF IsInstance(exc.cls, "AuthenticationException")
    THEN [exc EXCEPT !.cls = "ReConAuthenticationError"]
    ELSE IF IsInstance(exc.cls, "TimeoutError") \/ IsInstance(exc.cls, "OSError")
    THEN [exc EXCEPT !.cls = "ReConNetworkError"]
    ELSE IF IsInstance(exc.cls, "SSHException")
    THEN [exc EXCEPT !.cls = "ReConSSHError"]
    ELSE exc

\* A plausible slip: the profile is registered and saved before the transport
\* is known to be up.
_connect_try_registers_first(e, host, username, plan) ==
    LET e0 == _save_host_data(
                  [_activity(e, <<"Connecting to", host>>) EXCEPT
                      !.host_pool = setdefault(@, host, HostInfo(host, username)),
                      !.current_host = host])
    IN  IF plan.site = "connect"
        THEN Raise([e0 EXCEPT !.connected = IF plan.exc.kind = "socket" THEN @ ELSE FALSE],
                   plan.exc)
        ELSE IF plan.site = "save" THEN Raise(e0, plan.exc)
        ELSE LET e2 == _fill_prompt(_activity([e0 EXCEPT !.connected = TRUE],
                                              "Checking prompt..."), plan)
             IN  IF e2.raised.cls # "none" THEN e2
                 ELSE _deploy_key(_activity(e2, "Deploying key..."), plan)

\* The try block of _connect.  A connect that fails before the socket is open
\* leaves the client's transport as it was; one that fails later has replaced it
\* by a transport that never authenticated.
_connect_try(e, host, username, plan) ==
    LET e0 == _activity(e, <<"Connecting to", host>>)
    IN  IF plan.site = "connect"
        THEN Raise([e0 EXCEPT !.connected = IF plan.exc.kind = "socket" THEN @ ELSE FALSE],
                   plan.exc)
        ELSE LET e1 == [e0 EXCEPT !.connected = TRUE,
                                  !.host_pool = setdefault(@, host, HostInfo(host, username)),
                                  !.current_host = host]
             IN  IF plan.site = "save" THEN Raise(e1, plan.exc)
                 ELSE LET e2 == _fill_prompt(_activity(_save_host_data(e1), "Checking prompt..."),
                                             plan)
                      IN  IF e2.raised.cls # "none" THEN e2
                          ELSE _deploy_key(_activity(e2, "Deploying key..."), plan)

\* ReCon._connect
_connect(e, host, username, plan) ==
    LET c == _connect_try(e, host, username, plan)
    IN  IF c.raised.cls = "none" THEN c ELSE Raise(c, _connect_except(c.raised))

\* The except clauses of setup, in their order: the error_type reported
error_type(exc) ==
    IF IsInstance(exc.cls, "ReConAuthenticationError") THEN "authentication"
    ELSE IF IsInstance(exc.cls, "ReConNetworkError") THEN "network"
    ELSE IF IsInstance(exc.cls, "ReConSSHError") THEN "ssh"
    ELSE "unknown"

Establishment(is_ok, error, etype) ==
    [is_ok |-> is_ok, error |-> error, error_type |-> etype]

\* ReCon.setup up to its host_establishment event: the connect sequence and
\* the except clauses
establish(e, host, username, plan) ==
    LET c == _connect(e, host, username, plan)
    IN  IF c.raised.cls # "none"
        THEN IF IsInstance(c.raised.cls, "Exception")
             THEN _call_handler(_activity(Raise(c, NoExc), "error connecting"),
                                "host_establishment",
                                Establishment(FALSE, c.raised, error_type(c.raised)))
             ELSE c
        ELSE _call_handler(c, "host_establishment", Establishment(TRUE, NoExc, "none"))

\* The last event is host_establishment(is_ok=True).
Established(e) ==
    /\ e.raised.cls = "none"
    /\ e.log # <<>>
    /\ e.log[Len(e.log)].ev = "host_establishment"
    /\ e.log[Len(e.log)].arg.is_ok

\* A plausible slip: the networks are enumerated before the consoles.
setup_enumerate_networks_first(s1, oc, on) ==
    LET s2 == enumerate_local_networks(s1, on)
        s3 == IF s2.raised.cls # "none" THEN s2 ELSE enumerate_consoles(s2, oc)
    IN  IF s3.raised.cls = "none" /\ s3.current_host # None /\ cur(s3).nodes # <<>>
        THEN enumerate_nodes_cached(s3)
        ELSE s3

\* ReCon.setup after host_establishment(is_ok=True): the enumerators
setup_enumerate(s1, oc, on) ==
    LET s2 == enumerate_consoles(s1, oc)
        s3 == IF s2.raised.cls # "none" THEN s2 ELSE enumerate_local_networks(s2, on)
    IN  IF s3.raised.cls = "none" /\ s3.current_host # None /\ cur(s3).nodes # <<>>
        THEN enumerate_nodes_cached(s3)
        ELSE s3

\* A plausible slip: a failed connect is reported, and setup goes on.
setup_falls_through(e, host, username, plan, oc, on) ==
    setup_enumerate(establish(e, host, username, plan), oc, on)

\* ReCon.setup.  oc and on are how the two fetches end, if they are made.
setup(e, host, username, plan, oc, on) ==
    LET s1 == establish(e, host, username, plan)
    IN  IF Established(s1) THEN setup_enumerate(s1, oc, on) ELSE s1

\* ----------------------------------------------------------------- tunnel

\* The local ports the OS can hand out for a bind to port 0
Ports == {49152, 49153}

\* A plausible slip: every pair is given the port of the first bind.
forwards_one_port(nodes, ports) ==
    [i \in 1..(2 * Len(nodes)) |->
        IF i % 2 = 1 THEN "-L"
        ELSE <<ports[1], nodes[i \div 2], 443>>]

\* The "-L localPort:node:443" pairs of the argument list, for the nodes in cache
\* order; ports[i] is what the i-th bind to port 0 is given.  The listening
\* socket is closed again before the next bind.
forwards(nodes, ports) ==
    [i \in 1..(2 * Len(nodes)) |->
        IF i % 2 = 1 THEN "-L"
        ELSE <<ports[i \div 2], nodes[i \div 2], 443>>]

\* port_mapping: a dict keyed by node, so a later entry of a node replaces an
\* earlier one
port_mapping(nodes, ports) ==
    [n \in {nodes[i] : i \in DOMAIN nodes} |->
        ports[CHOOSE i \in DOMAIN nodes :
                  /\ nodes[i] = n
                  /\ \A j \in DOMAIN nodes : nodes[j] = n => j <= i]]

\* The title of the window a process runs in, a text of single characters, once
\* the remote command of its argument list has set it; the tunnel process has
\* no window of its own.
WindowTitle(kind, args) == IF kind = "tunnel" THEN <<>> ELSE args[Len(args)].title

\* subprocess.Popen: one more process of this engine; a console and a shell are
\* started with CREATE_NEW_CONSOLE.
Popen(e, kind, args) ==
    [e EXCEPT !.procs = Append(@, [kind |-> kind, args |-> args, alive |-> TRUE,
                                   new_console |-> kind # "tunnel",
                                   title |-> WindowTitle(kind, args)])]

\* Popen.terminate: nothing happens to a process that is gone
terminate(e, n) == [e EXCEPT !.procs[n].alive = FALSE]

\* The binds to port 0 of one opening toggle, as the OS answers them
binds(e, ports) == Emit(e, "bind", SubSeq(ports, 1, Len(cur(e).nodes)))

\* A plausible slip: a toggle with the handle present closes the tunnel and
\* opens a new one.
toggle_https_tunnel_reopens(e, ports) ==
    IF e.current_host = None
    THEN Raise(_activity(e, "Establishing tunnel..."), NoHostError)
    ELSE LET e0 == IF e.tunnel_proc = 0 THEN e
                   ELSE _call_handler(terminate(_activity(e, "Closing tunnel..."),
                                                e.tunnel_proc),
                                      "tunnel_closed", <<>>)
             e1 == Popen(binds(_activity(e0, "Establishing tunnel..."), ports), "tunnel",
                         <<"ssh", "-N", "-i", e.key_file,
                           <<cur(e).username, cur(e).address>>>>
                         \o forwards(cur(e).nodes, ports))
         IN  _call_handler([e1 EXCEPT !.tunnel_proc = Len(e1.procs)],
                           "tunnel_established", port_mapping(cur(e).nodes, ports))

\* ReCon.toggle_https_tunnel.  An argument list that holds None (no key path)
\* makes Popen raise TypeError.
toggle_https_tunnel(e, ports) ==
    IF e.tunnel_proc = 0
    THEN LET e0 == _activity(e, "Establishing tunnel...")
         IN  IF e.current_host = None THEN Raise(e0, NoHostError)
             ELSE IF e.key_file = 0
             THEN Raise(binds(e0, ports), Exc("TypeError", "other", "none"))
             ELSE LET e1 == Popen(binds(e0, ports), "tunnel",
                                  <<"ssh", "-N", "-i", e.key_file,
                                    <<cur(e).username, cur(e).address>>>>
                                  \o forwards(cur(e).nodes, ports))
                  IN  _call_handler([e1 EXCEPT !.tunnel_proc = Len(e1.procs)],
                                    "tunnel_established",
                                    port_mapping(cur(e).nodes, ports))
    ELSE _call_handler([terminate(_activity(e, "Closing tunnel..."), e.tunnel_proc)
                           EXCEPT !.tunnel_proc = 0],
                       "tunnel_closed", <<>>)

\* ------------------------------------------------------- console and shell

Digits == {"0", "1", "2", "3", "4", "5", "6", "7", "8", "9"}

\* The end of the run of digits of s that starts at position i
RECURSIVE DigitsEnd(_, _)
DigitsEnd(s, i) == IF i + 1 <= Len(s) /\ s[i + 1] \in Digits THEN DigitsEnd(s, i + 1) ELSE i

\* The positions of s where COM and at least one digit start
ComStarts(s) ==
    {i \in 1..(Len(s) - 3) :
        s[i] = "C" /\ s[i + 1] = "O" /\ s[i + 2] = "M" /\ s[i + 3] \in Digits}

\* A plausible slip: the name COM is enough, digits or not.
search_com_no_digits(s) ==
    LET starts == {i \in 1..(Len(s) - 2) : s[i] = "C" /\ s[i + 1] = "O" /\ s[i + 2] = "M"}
    IN  IF starts = {} THEN <<>>
        ELSE LET i == CHOOSE j \in starts : \A k \in starts : j <= k
             IN  SubSeq(s, i, DigitsEnd(s, i + 2))

\* re.search(r"(COM\d+)", console): the leftmost match with all its digits, the
\* empty text for no match
search_com(s) ==
    IF ComStarts(s) = {} THEN <<>>
    ELSE LET i == CHOOSE j \in ComStarts(s) : \A k \in ComStarts(s) : j <= k
         IN  SubSeq(s, i, DigitsEnd(s, i + 3))

\* The local part of the argument list of a console or a shell
ssh_args(e) ==
    <<"ssh", "-o StrictHostKeyChecking=no", "-t", "-i", e.key_file,
      <<cur(e).username, cur(e).address>>>>

\* The text "[ReCon]sole " that both titles start with
TitleTag == <<"[", "R", "e", "C", "o", "n", "]", "s", "o", "l", "e", " ">>

\* ReCon.spawn_console.  The remote command sets the title and the colour of the
\* window and runs plink on the port.
spawn_console(e, console) ==
    LET port == search_com(console)
    IN  IF port = <<>> THEN _activity(e, "No COM port found in console name.")
        ELSE IF e.current_host = None THEN Raise(e, NoHostError)
        ELSE IF e.key_file = 0 THEN Raise(e, Exc("TypeError", "other", "none"))
        ELSE Popen(e, "console",
                   Append(ssh_args(e),
                          [title |-> TitleTag \o <<"serial", " ">> \o port
                                         \o <<" ", "on", " ", cur(e).address>>,
                           fcolor |-> "darkcyan",
                           post |-> <<"plink -serial", port, "-sercfg 115200 8,n,1,X">>]))

\* ReCon.spawn_shell
spawn_shell(e) ==
    IF e.current_host = None THEN Raise(e, NoHostError)
    ELSE IF e.key_file = 0 THEN Raise(e, Exc("TypeError", "other", "none"))
    ELSE Popen(e, "shell",
               Append(ssh_args(e),
                      [title |-> TitleTag \o <<"powershell", " ", "on", " ", cur(e).address>>,
                       fcolor |-> "green",
                       post |-> <<"-NoExit">>]))

\* ------------------------------------------------------------------- stop

\* str.lower of a character
LowerOf ==
    [A |-> "a", B |-> "b", C |-> "c", D |-> "d", E |-> "e", F |-> "f", G |-> "g", H
     |-> "h", I |-> "i", J |-> "j", K |-> "k", L |-> "l", M |-> "m", N |-> "n", O
     |-> "o", P |-> "p", Q |-> "q", R |-> "r", S |-> "s", T |-> "t", U |-> "u", V
     |-> "v", W |-> "w", X |-> "x", Y |-> "y", Z |-> "z"]

lower(c) == IF c \in DOMAIN LowerOf THEN LowerOf[c] ELSE c

\* The filter stop hands to taskkill: WINDOWTITLE eq ReConSole*
StopFilter == <<"R", "e", "C", "o", "n", "S", "o", "l", "e", "*">>

\* A plausible slip: a filter that selects every window.
title_matches_any(title, pattern) == TRUE

\* The comparison taskkill makes for a WINDOWTITLE eq filter: letters compare
\* without case, and a * at the end of the pattern stands for any rest.
title_matches(title, pattern) ==
    IF pattern # <<>> /\ pattern[Len(pattern)] = "*"
    THEN /\ Len(title) >= Len(pattern) - 1
         /\ \A i \in 1..(Len(pattern) - 1) : lower(title[i]) = lower(pattern[i])
    ELSE /\ Len(title) = Len(pattern)
         /\ \A i \in 1..Len(pattern) : lower(title[i]) = lower(pattern[i])

\* The step of stop that the environment makes fail, if any: os.remove of the
\* key file (the file is in use or not removable) or the run of taskkill (no
\* such program).
StopFailures == {"none", "remove", "taskkill"}

\* ReCon.stop after the close of the transport: terminate the tunnel process,
\* remove the key file, run taskkill; an error raised by a step ends the call.
stop_from_terminate(e, fail) ==
    LET e2 == IF e.tunnel_proc # 0
              THEN Emit(terminate(e, e.tunnel_proc), "terminate", e.tunnel_proc)
              ELSE e
        e3 == IF e2.key_file = 0 THEN e2
              ELSE IF fail = "remove" \/ e2.key_file \notin e2.key_files
              THEN Raise(Emit(e2, "remove", "raised"),
                         Exc(IF fail = "remove" THEN "PermissionError"
                             ELSE "FileNotFoundError", "other", "remove"))
              ELSE Emit([e2 EXCEPT !.key_files = @ \ {e2.key_file}], "remove", "done")
    IN  IF e3.raised.cls # "none" THEN e3
        ELSE IF fail = "taskkill"
        THEN Raise(Emit(e3, "taskkill", "raised"),
                   Exc("FileNotFoundError", "other", "taskkill"))
        ELSE Emit([e3 EXCEPT !.procs =
                      [i \in DOMAIN @ |->
                          IF title_matches(@[i].title, StopFilter)
                          THEN [@[i] EXCEPT !.alive = FALSE] ELSE @[i]]],
                  "taskkill", "done")

\* ReCon.stop
stop(e, fail) ==
    stop_from_terminate(Emit([e EXCEPT !.connected = FALSE], "close", <<>>), fail)

\* ------------------------------------------------------------------- Init

Header == <<"Caption", " ">>

Addr1 == IP(10, 0, 0, 1)

\* What the remote host answers to the console query (the header alone, or the
\* header with device lines, padded, and a blank line between them) and the
\* (address, prefix length of the mask) pairs its ipconfig shows.
Remotes ==
    { [consoles |-> <<>>, ipconfig |-> << <<IP(8, 8, 8, 8), 24>> >>],
      [consoles |-> <<Header>>, ipconfig |-> << <<Addr1, 30>> >>],
      [consoles |-> <<Header, <<"COM1", " ">>, <<" ">>, <<" ", "UART", "COM2">>>>,
       ipconfig |-> << <<IP(127, 0, 0, 1), 8>>, <<IP(10, 0, 0, 5), 31>> >>],
      [consoles |-> <<Header, <<"COM1", " ">>, <<" ">>, <<" ", "UART", "COM2">>>>,
       ipconfig |-> << <<IP(10, 0, 0, 9), 32>>, <<Addr1, 30>> >>] }

EmptyPool == << >>

\* A registry an earlier run has left in the store
StoredPool ==
    [h \in {"h1"} |->
        [HostInfo("h1", "u1") EXCEPT
            !.consoles = << <<"COM1">> >>,
            !.networks = << IPv4Network(Addr1, 30) >>,
            !.nodes = << IP(10, 0, 0, 1), IP(10, 0, 0, 2) >>]]

InitStores == { [exists |-> FALSE, data |-> {}],
                [exists |-> TRUE, data |-> dumps(StoredPool)] }

\* App.__init__ and on_model_initialize: the login frame is shown, the buttons
\* of the devices frame are disabled, no thread but the UI thread runs.
AppInit ==
    [buttons |-> {"connect"}, setup |-> "none", ui |-> "idle", sweeps |-> <<>>,
     connects |-> 0, clicks |-> 0, found |-> <<>>, loaded |-> 0]

\* ReCon._restore_host_data: the registry a new engine starts with
_restore_host_data(file) == IF file.exists THEN loads(file.data) ELSE EmptyPool

\* ReCon.__init__
Init ==
    /\ store \in InitStores
    /\ host_pool = _restore_host_data(store)
    /\ current_host = None
    /\ connected = FALSE
    /\ key_file = 0
    /\ key_files = {}
    /\ prompt = ""
    /\ tunnel_proc = 0
    /\ procs = <<>>
    /\ log = <<>>
    /\ raised = NoExc
    /\ ret = NoResult
    /\ calls = <<>>
    /\ todo = <<>>
    /\ sweeping = FALSE
    /\ remote \in Remotes
    /\ fetched = [h \in Hosts |-> [consoles |-> <<>>, networks |-> <<>>, nodes |-> <<>>]]
    /\ app = AppInit
    /\ _event_handlers = << >>
    /\ handled = <<>>

\* ---------------------------------------------------------------- actions

\* The number of calls of `name` made so far
Count(name) == Len(SelectSeq(calls, LAMBDA c : c = name))

\* The number of consoles and shells asked for so far
Spawns == Count("spawn_console") + Count("spawn_shell")

\* A public call can start: no other is in progress.  The toggles of the tunnel
\* and the spawns have bounds of their own.
CanCall == ~sweeping /\ Len(calls) - Count("toggle_https_tunnel") - Spawns < MaxCalls

Called(name) == calls' = Append(calls, name)

Setup(host, username, plan, oc, on) ==
    /\ CanCall
    /\ Count("setup") < MaxSetups
    /\ Install(setup(Eng, host, username, plan, oc, on))
    /\ Called("setup")
    /\ ret' = NoResult
    /\ UNCHANGED <<todo, sweeping, remote, app>>

ExecuteCommand(command, out, o) ==
    /\ CanCall
    /\ Possible(Eng, o)
    /\ LET r == execute_command(command, Response(o, out))
       IN  /\ Install(Raise(Sent(Eng, command, Response(o, out)),
                            IF r.raised = "none" THEN NoExc
                            ELSE Exc(r.raised, "command", "none")))
           /\ ret' = r
    /\ Called("execute_command")
    /\ UNCHANGED <<todo, sweeping, remote, app>>

ClearConsoles ==
    /\ CanCall
    /\ Install(clear(Eng, "consoles"))
    /\ Called("clear_consoles")
    /\ ret' = NoResult
    /\ UNCHANGED <<todo, sweeping, remote, app>>

ClearLocalNetworks ==
    /\ CanCall
    /\ Install(clear(Eng, "networks"))
    /\ Called("clear_local_networks")
    /\ ret' = NoResult
    /\ UNCHANGED <<todo, sweeping, remote, app>>

ClearNodes ==
    /\ CanCall
    /\ Install(clear(Eng, "nodes"))
    /\ Called("clear_nodes")
    /\ ret' = NoResult
    /\ UNCHANGED <<todo, sweeping, remote, app>>

EnumerateConsoles(o) ==
    /\ CanCall
    /\ Possible(Eng, o)
    /\ Install(enumerate_consoles(Eng, o))
    /\ Called("enumerate_consoles")
    /\ ret' = NoResult
    /\ UNCHANGED <<todo, sweeping, remote, app>>

EnumerateLocalNetworks(o) ==
    /\ CanCall
    /\ Possible(Eng, o)
    /\ Install(enumerate_local_networks(Eng, o))
    /\ Called("enumerate_local_networks")
    /\ ret' = NoResult
    /\ UNCHANGED <<todo, sweeping, remote, app>>

\* What enumerate_nodes does before the first turn of its loop, from engine e
BeginNodes(e) ==
    IF e.current_host = None
    THEN Install(Raise(e, NoHostError)) /\ UNCHANGED <<todo, sweeping>>
    ELSE IF cur(e).nodes # <<>>
    THEN Install(enumerate_nodes_cached(e)) /\ UNCHANGED <<todo, sweeping>>
    ELSE IF cur(e).networks = <<>>
    THEN Install(enumerate_nodes_guard(e)) /\ UNCHANGED <<todo, sweeping>>
    ELSE /\ Install(e)
         /\ todo' = hosts(cur(e).networks[1])
         /\ sweeping' = TRUE

\* enumerate_nodes up to the first turn of its loop: the cached replay and the
\* guard end the call at once, a fresh sweep starts with all hosts still to probe.
EnumerateNodes ==
    /\ CanCall
    /\ Called("enumerate_nodes")
    /\ ret' = NoResult
    /\ UNCHANGED <<remote, app>>
    /\ BeginNodes(Eng)

\* App.on_ui_btn_consoles_refresh: clear_consoles, then enumerate_consoles
ConsolesRefresh(o) ==
    /\ CanCall
    /\ Possible(Eng, o)
    /\ Install(enumerate_consoles(clear(Eng, "consoles"), o))
    /\ Called("consoles_refresh")
    /\ ret' = NoResult
    /\ UNCHANGED <<todo, sweeping, remote, app>>

\* App.on_ui_btn_nics_refresh: clear_local_networks, then enumerate_local_networks
NicsRefresh(o) ==
    /\ CanCall
    /\ Possible(Eng, o)
    /\ Install(enumerate_local_networks(clear(Eng, "networks"), o))
    /\ Called("nics_refresh")
    /\ ret' = NoResult
    /\ UNCHANGED <<todo, sweeping, remote, app>>

\* App.on_ui_btn_nodes_refresh: clear_nodes, then enumerate_nodes
NodesRefresh ==
    /\ CanCall
    /\ Called("nodes_refresh")
    /\ ret' = NoResult
    /\ UNCHANGED <<remote, app>>
    /\ BeginNodes(clear(Eng, "nodes"))

\* The engine in the middle of a call: the log goes on.
Mid == [Eng EXCEPT !.log = log, !.handled = handled]

\* One turn of the sweep loop
SweepProbe(o) ==
    /\ sweeping
    /\ todo # <<>>
    /\ Possible(Eng, o)
    /\ Install(probe(Mid, Head(todo), o))
    /\ todo' = Tail(todo)
    /\ UNCHANGED <<ret, calls, sweeping, remote, app>>

\* The loop is over: enumerate_nodes saves, notifies and returns.
SweepEnd ==
    /\ sweeping
    /\ todo = <<>>
    /\ Install(sweep_end(Mid))
    /\ sweeping' = FALSE
    /\ UNCHANGED <<ret, calls, todo, remote, app>>

\* App.on_ui_btn_node_tunnel_https: toggle_https_tunnel.  ports is what the OS
\* gives to the successive binds.
Toggle(ports) ==
    /\ ~sweeping
    /\ Count("toggle_https_tunnel") < MaxToggles
    /\ Install(toggle_https_tunnel(Eng, ports))
    /\ Called("toggle_https_tunnel")
    /\ ret' = NoResult
    /\ UNCHANGED <<todo, sweeping, remote, app>>

\* App.on_stop: stop
Stop(fail) ==
    /\ CanCall
    /\ Install(stop(Eng, fail))
    /\ Called("stop")
    /\ ret' = NoResult
    /\ UNCHANGED <<todo, sweeping, remote, app>>

\* The program ends and is started again: a new engine is constructed over the
\* store and the temporary files the old one has left.
Restart ==
    /\ CanCall
    /\ Install([Eng EXCEPT !.host_pool = _restore_host_data(store),
                           !.current_host = None,
                           !.connected = FALSE,
                           !.key_file = 0,
                           !.prompt = "",
                           !.tunnel_proc = 0,
                           !.procs = <<>>,
                           !._event_handlers = << >>,
                           !.fetched = [h \in Hosts |->
                               [consoles |-> <<>>, networks |-> <<>>, nodes |-> <<>>]]])
    /\ Called("__init__")
    /\ ret' = NoResult
    /\ UNCHANGED <<todo, sweeping, remote, app>>

\* App.on_ui_btn_spawn_console: spawn_console with the text of the combo box
SpawnConsole(console) ==
    /\ ~sweeping
    /\ Spawns < MaxSpawns
    /\ Install(spawn_console(Emit(Eng, "spawn_console", console), console))
    /\ Called("spawn_console")
    /\ ret' = NoResult
    /\ UNCHANGED <<todo, sweeping, remote, app>>

\* App.on_ui_btn_spawn_shell: spawn_shell
SpawnShell ==
    /\ ~sweeping
    /\ Spawns < MaxSpawns
    /\ Install(spawn_shell(Eng))
    /\ Called("spawn_shell")
    /\ ret' = NoResult
    /\ UNCHANGED <<todo, sweeping, remote, app>>

\* App.init_logic: bind
Bind(event, handler) ==
    /\ ~sweeping
    /\ Install(Emit(bind(Eng, event, handler), "bind", <<event, handler>>))
    /\ ret' = NoResult
    /\ UNCHANGED <<calls, todo, sweeping, remote, app>>

\* App.start: start
Start ==
    /\ CanCall
    /\ Install(start(Eng))
    /\ Called("start")
    /\ ret' = NoResult
    /\ UNCHANGED <<todo, sweeping, remote, app>>

\* The ports the OS gives to the binds of one opening toggle, one for each
\* cached node (no network of Remotes has more than two hosts)
Binds == [1..2 -> Ports]

ProbedCommands == {CmdPing(Addr1)}

Next ==
    \/ \E l \in Logins, s \in Scenarios :
          Setup(l[1], l[2], s.plan, s.oc, s.on)
    \/ \E c \in ProbedCommands, o \in Outcomes :
          ExecuteCommand(c, <<"Reply from", Addr1>>, o)
    \/ ClearConsoles
    \/ ClearLocalNetworks
    \/ ClearNodes
    \/ \E o \in ReplyOutcomes : EnumerateConsoles(o)
    \/ \E o \in ReplyOutcomes : EnumerateLocalNetworks(o)
    \/ EnumerateNodes
    \/ \E o \in ReplyOutcomes : ConsolesRefresh(o)
    \/ \E o \in ReplyOutcomes : NicsRefresh(o)
    \/ NodesRefresh
    \/ \E o \in FetchOutcomes : SweepProbe(o)
    \/ SweepEnd
    \/ Restart

Spec == Init /\ [][Next]_vars

\* The session with its tunnel: setup, the sweep that fills the node cache, the
\* toggles of the tunnel and stop.
TunnelNext ==
    \/ \E l \in Logins, s \in Scenarios :
          Setup(l[1], l[2], s.plan, s.oc, s.on)
    \/ ClearConsoles
    \/ ClearLocalNetworks
    \/ ClearNodes
    \/ NodesRefresh
    \/ \E o \in FetchOutcomes : SweepProbe(o)
    \/ SweepEnd
    \/ \E ports \in Binds : Toggle(ports)
    \/ \E fail \in StopFailures : Stop(fail)

TunnelSpec == Init /\ [][TunnelNext]_vars

\* The texts spawn_console is called with: an entry of the console list, or
\* what the user has typed into the combo box
Descriptors ==
    { <<"U", "S", "B", " ", "(", "C", "O", "M", "6", ")">>,
      <<"C", "O", "M">>,
      <<"c", "o", "m", "1">>,
      <<"C", "O", "M", "1", "2">>,
      <<>>,
      <<"X", "C", "O", "M", "C", "O", "M", "3">> }

\* The session with its terminal windows: setup, the spawns and stop.
ConsoleNext ==
    \/ \E l \in Logins, s \in Scenarios :
          Setup(l[1], l[2], s.plan, s.oc, s.on)
    \/ \E d \in Descriptors : SpawnConsole(d)
    \/ SpawnShell
    \/ \E fail \in StopFailures : Stop(fail)

ConsoleSpec == Init /\ [][ConsoleNext]_vars

\* The events App binds a handler to, and the handlers
EventNames == {"initialized", "activity", "host_establishment"}
Handlers == {"on_model_initialize", "on_model_activity"}

\* The engine and its handlers: construction, bind, start and setup.
HandlerNext ==
    \/ \E ev \in EventNames, h \in Handlers : Bind(ev, h)
    \/ Start
    \/ \E l \in Logins, s \in Scenarios :
          Setup(l[1], l[2], s.plan, s.oc, s.on)
    \/ Restart

HandlerSpec == Init /\ [][HandlerNext]_vars

\* Number of calls of setup and stop in a behaviour of SessionSpec.
MaxSessionCalls == 3

\* setup, on an engine that may have been set up before: nothing in the engine
\* refuses a second call, and App enables the login frame again after a
\* failed one.
SessionSetup(host, username, plan) ==
    /\ Len(calls) < MaxSessionCalls
    /\ Install(setup(Eng, host, username, plan, "exit0", "exit0"))
    /\ Called("setup")
    /\ ret' = NoResult
    /\ UNCHANGED <<todo, sweeping, remote, app>>

\* stop, whatever was called before
SessionStop(fail) ==
    /\ Len(calls) < MaxSessionCalls
    /\ Install(stop(Eng, fail))
    /\ Called("stop")
    /\ ret' = NoResult
    /\ UNCHANGED <<todo, sweeping, remote, app>>

\* The sessions of one engine: every sequence of setup and stop.
SessionNext ==
    \/ \E l \in Logins, p \in Plans : SessionSetup(l[1], l[2], p)
    \/ \E fail \in StopFailures : SessionStop(fail)

SessionSpec == Init /\ [][SessionNext]_vars

\* ------------------------------------------------- the threads of main.py

\* Number of sweep threads main.py starts in a behaviour.
MaxSweeps == 2

\* Number of clicks on the buttons of the devices frame in a behaviour.
MaxClicks == 2

\* In UISpec the engine is driven as App drives it: setup on a thread of its
\* own, every sweep on a new thread, the refresh and tunnel handlers on the UI
\* thread; a remote command is in flight from the step that sends it to the
\* step that receives its response, and the steps of the threads interleave.

Click(a) == [a EXCEPT !.clicks = @ + 1]

\* The local ports of n binds, where the system hands out those of `ports` in
\* turn (a port is free again as soon as its socket is closed).
Cycle(ports, n) == [i \in 1..n |-> ports[((i - 1) % Len(ports)) + 1]]

Enable(a, btns) == [a EXCEPT !.buttons = @ \cup btns]

\* Thread(target=self.logic.enumerate_nodes).start()
StartSweep(a) == [a EXCEPT !.sweeps = Append(@, [pc |-> "new", todo |-> <<>>])]

\* The thread t goes on to `next`; the UI thread is idle again when its handler
\* is over, the setup thread ends at "done".
Goto(a, t, next) ==
    IF t = "ui" THEN [a EXCEPT !.ui = "idle"] ELSE [a EXCEPT !.setup = next]

\* The thread t is left by an error: the setup thread ends, the UI thread goes
\* back to its main loop.
Abort(a, t) == IF t = "ui" THEN [a EXCEPT !.ui = "idle"] ELSE [a EXCEPT !.setup = "dead"]

\* App.on_model_consoles_loaded on thread t: consoles[0] raises IndexError for
\* an empty list, before the buttons are enabled.
on_model_consoles_loaded(a, t, consoles) ==
    IF consoles = <<>> THEN Abort(a, t)
    ELSE Goto(Enable(a, {"spawn_console", "consoles_refresh"}), t, "networks")

\* App.on_model_local_networks_loaded on thread t: networks[0] raises
\* IndexError for an empty list; with no cached node the user is asked, and
\* the answer Yes starts a sweep thread.
on_model_local_networks_loaded(a, t, networks, nodes, answer) ==
    IF networks = <<>> THEN Abort(a, t)
    ELSE LET a1 == Enable(a, {"nics_refresh"})
             a2 == IF nodes = <<>> /\ answer = "Yes" THEN StartSweep(a1) ELSE a1
         IN  Goto(a2, t, "nodes")

\* App.on_model_node_found, once for every node_found of the step whose log
\* is l; `found` lists the addresses the handler was called with.
on_model_node_found(a, l) ==
    [a EXCEPT !.found = @ \o Map(SelectSeq(l, LAMBDA x : x.ev = "node_found"),
                                 LAMBDA x : x.arg.node)]

\* App.on_model_nodes_loaded; `loaded` counts its calls.
on_model_nodes_loaded(a) ==
    [Enable(a, {"nodes_refresh", "tunnel_https"}) EXCEPT !.loaded = @ + 1]

\* A step of a thread of main.py: the events the engine emits in the step go
\* to the handlers init_logic has bound, in the same step, and what they did
\* is in `app`; no log of the call is kept.
UIInstall(e) == Install([e EXCEPT !.log = <<>>])

UIFrame == UNCHANGED <<ret, calls, todo, sweeping, remote>>

\* App.on_ui_btn_connect_click and the setup thread up to host_establishment;
\* App.on_model_host_establishment shows the devices frame, or enables the
\* login frame again.
UIConnectClick(host, username, plan) ==
    /\ "connect" \in app.buttons
    /\ app.ui = "idle"
    /\ app.connects < MaxSetups
    /\ LET e == establish(Eng, host, username, plan)
           a == [app EXCEPT !.connects = @ + 1]
       IN  /\ UIInstall(e)
           /\ app' = IF Established(e)
                     THEN [a EXCEPT !.buttons = @ \ {"connect"}, !.setup = "consoles"]
                     ELSE a
    /\ UIFrame

\* The setup thread enters enumerate_consoles or enumerate_local_networks: a
\* populated cache is served at once, an empty one sends the command.
UISetupEnumerate(kind) ==
    /\ app.setup = kind
    /\ IF kind = "consoles"
       THEN IF cur(Eng).consoles # <<>>
            THEN LET e == enumerate_consoles(Eng, "exit0")
                 IN  /\ UIInstall(e)
                     /\ app' = on_model_consoles_loaded(app, "setup", cur(e).consoles)
            ELSE UIInstall(Eng) /\ app' = [app EXCEPT !.setup = "consoles_inflight"]
       ELSE IF cur(Eng).networks # <<>>
            THEN \E answer \in {"Yes", "No"} :
                     /\ answer = "Yes" => Len(app.sweeps) < MaxSweeps
                     /\ LET e == enumerate_local_networks(Eng, "exit0")
                        IN  /\ UIInstall(e)
                            /\ app' = on_model_local_networks_loaded(
                                          app, "setup", cur(e).networks, cur(e).nodes,
                                          answer)
            ELSE UIInstall(Eng) /\ app' = [app EXCEPT !.setup = "networks_inflight"]
    /\ UIFrame

\* App.on_ui_btn_consoles_refresh, App.on_ui_btn_nics_refresh: the UI thread
\* clears the cache and sends the command.
UIRefreshClick(kind) ==
    /\ app.ui = "idle"
    /\ (IF kind = "consoles" THEN "consoles_refresh" ELSE "nics_refresh") \in app.buttons
    /\ app.clicks < MaxClicks
    /\ UIInstall(clear(Eng, kind))
    /\ app' = [Click(app) EXCEPT !.ui = IF kind = "consoles" THEN "consoles_inflight"
                                        ELSE "networks_inflight"]
    /\ UIFrame

Pc(t) == IF t = "ui" THEN app.ui ELSE app.setup

\* The response of the console query arrives on thread t.
UIConsolesReceive(t, o) ==
    /\ Pc(t) = "consoles_inflight"
    /\ Possible(Eng, o)
    /\ LET e == fetch_consoles(Eng, o)
       IN  /\ UIInstall(e)
           /\ app' = IF e.raised.cls # "none" THEN Abort(app, t)
                     ELSE on_model_consoles_loaded(app, t, cur(e).consoles)
    /\ UIFrame

\* The response of ipconfig arrives on thread t.
UINetworksReceive(t, o, answer) ==
    /\ Pc(t) = "networks_inflight"
    /\ Possible(Eng, o)
    /\ answer = "Yes" => Len(app.sweeps) < MaxSweeps
    /\ LET e == fetch_local_networks(Eng, o)
       IN  /\ UIInstall(e)
           /\ app' = IF e.raised.cls # "none" THEN Abort(app, t)
                     ELSE on_model_local_networks_loaded(app, t, cur(e).networks,
                                                         cur(e).nodes, answer)
    /\ UIFrame

\* The end of setup: the node enumerator runs if the cache holds a node by now.
UISetupNodes ==
    /\ app.setup = "nodes"
    /\ IF cur(Eng).nodes # <<>>
       THEN LET e == enumerate_nodes_cached(Eng)
            IN  /\ UIInstall(e)
                /\ app' = [on_model_nodes_loaded(on_model_node_found(app, e.log))
                              EXCEPT !.setup = "done"]
       ELSE /\ UIInstall(Eng)
            /\ app' = [app EXCEPT !.setup = "done"]
    /\ UIFrame

\* App.on_ui_btn_nodes_refresh: clear_nodes on the UI thread, then a new thread
UINodesRefreshClick ==
    /\ app.ui = "idle"
    /\ "nodes_refresh" \in app.buttons
    /\ app.clicks < MaxClicks
    /\ Len(app.sweeps) < MaxSweeps
    /\ UIInstall(clear(Eng, "nodes"))
    /\ app' = StartSweep(Click(app))
    /\ UIFrame

\* App.on_ui_btn_node_tunnel_https on the UI thread
UIToggleClick(ports) ==
    /\ app.ui = "idle"
    /\ "tunnel_https" \in app.buttons
    /\ app.clicks < MaxClicks
    /\ UIInstall(toggle_https_tunnel(Eng, Cycle(ports, Len(cur(Eng).nodes))))
    /\ app' = Click(app)
    /\ UIFrame

\* The sweep thread i enters enumerate_nodes.
UISweepBegin(i) ==
    /\ i \in DOMAIN app.sweeps
    /\ app.sweeps[i].pc = "new"
    /\ IF cur(Eng).nodes # <<>>
       THEN LET e == enumerate_nodes_cached(Eng)
            IN  /\ UIInstall(e)
                /\ app' = [on_model_nodes_loaded(on_model_node_found(app, e.log))
                              EXCEPT !.sweeps[i].pc = "done"]
       ELSE IF cur(Eng).networks = <<>>
       THEN /\ UIInstall(enumerate_nodes_guard(Eng))
            /\ app' = [on_model_nodes_loaded(app) EXCEPT !.sweeps[i].pc = "done"]
       ELSE /\ UIInstall(Eng)
            /\ app' = [app EXCEPT !.sweeps[i] =
                          [pc |-> "ready", todo |-> hosts(cur(Eng).networks[1])]]
    /\ UIFrame

\* The sweep thread i sends the probe of its next address.
UISweepSend(i) ==
    /\ i \in DOMAIN app.sweeps
    /\ app.sweeps[i].pc = "ready"
    /\ app.sweeps[i].todo # <<>>
    /\ UIInstall(Eng)
    /\ app' = [app EXCEPT !.sweeps[i].pc = "inflight"]
    /\ UIFrame

\* The response of the probe arrives on the sweep thread i.
UISweepReceive(i, o) ==
    /\ i \in DOMAIN app.sweeps
    /\ app.sweeps[i].pc = "inflight"
    /\ Possible(Eng, o)
    /\ LET e == probe(Eng, Head(app.sweeps[i].todo), o)
       IN  /\ UIInstall(e)
           /\ app' = [on_model_node_found(app, e.log) EXCEPT
                         !.sweeps[i] = [pc |-> "ready", todo |-> Tail(@.todo)]]
    /\ UIFrame

\* The loop of the sweep thread i is over: save, nodes_loaded, end of thread.
UISweepEnd(i) ==
    /\ i \in DOMAIN app.sweeps
    /\ app.sweeps[i].pc = "ready"
    /\ app.sweeps[i].todo = <<>>
    /\ UIInstall(sweep_end(Eng))
    /\ app' = [on_model_nodes_loaded(app) EXCEPT !.sweeps[i].pc = "done"]
    /\ UIFrame

UINext ==
    \/ \E l \in Logins, p \in Plans : UIConnectClick(l[1], l[2], p)
    \/ \E kind \in {"consoles", "networks"} : UISetupEnumerate(kind)
    \/ \E kind \in {"consoles", "networks"} : UIRefreshClick(kind)
    \/ \E t \in {"setup", "ui"}, o \in ReplyOutcomes : UIConsolesReceive(t, o)
    \/ \E t \in {"setup", "ui"}, o \in ReplyOutcomes, answer \in {"Yes", "No"} :
          UINetworksReceive(t, o, answer)
    \/ UISetupNodes
    \/ UINodesRefreshClick
    \/ \E ports \in Binds : UIToggleClick(ports)
    \/ \E i \in 1..MaxSweeps : UISweepBegin(i)
    \/ \E i \in 1..MaxSweeps : UISweepSend(i)
    \/ \E i \in 1..MaxSweeps, o \in FetchOutcomes : UISweepReceive(i, o)
    \/ \E i \in 1..MaxSweeps : UISweepEnd(i)

UISpec == Init /\ [][UINext]_vars

\* ================================================================= claims

LastCall == IF calls = <<>> THEN "none" ELSE calls[Len(calls)]
CallBefore == IF Len(calls) < 2 THEN "none" ELSE calls[Len(calls) - 1]

\* The entries of a log l for the event ev, in order
EventsIn(l, ev) == SelectSeq(l, LAMBDA x : x.ev = ev)
Elems(q) == {q[i] : i \in DOMAIN q}

\* The host_establishment(is_ok=False) entries of a log
Failures(l) ==
    {i \in DOMAIN l : l[i].ev = "host_establishment" /\ ~l[i].arg.is_ok}

\* This step is a call of the public method `name`.
Calls(name) == calls' = Append(calls, name)

\* ---- C1

ExpectedType(kind) ==
    CASE kind = "credentials" -> "authentication"
      [] kind = "socket" -> "network"
      [] kind = "protocol" -> "ssh"
      [] OTHER -> "unknown"

\* C1 (as claimed): a setup whose connect step fails reports
\* host_establishment(is_ok=False) with the error_type of the kind of failure:
\* bad credentials "authentication", socket-level failure "network", SSH protocol
\* failure "ssh", anything else "unknown".
C1_ErrorTypeFollowsKind ==
    LastCall = "setup" =>
        \A i \in Failures(log) :
            log[i].arg.error_type = ExpectedType(log[i].arg.error.kind)

\* ---- C2

RefusedAtConnect(l) ==
    {i \in Failures(l) : /\ l[i].arg.error.site = "connect"
                         /\ l[i].arg.error.kind \in {"credentials", "socket"}}

\* C2: on an engine with no current host, a setup whose transport connect fails
\* with bad credentials is classified authentication, one that fails at socket
\* level is classified network, and both leave current_host unset and the
\* registry and the store as they were.
C2_RefusedConnectLeavesRegistry ==
    [][ (Calls("setup") /\ current_host = None /\ RefusedAtConnect(log') # {}) =>
            /\ current_host' = None
            /\ host_pool' = host_pool
            /\ store' = store
            /\ \A i \in RefusedAtConnect(log') :
                  log'[i].arg.error_type =
                      (IF log'[i].arg.error.kind = "credentials"
                       THEN "authentication" ELSE "network") ]_vars

C2_Witness ==
    /\ LastCall = "setup"
    /\ current_host = None
    /\ \E i \in RefusedAtConnect(log) : log[i].arg.error.kind = "credentials"
    /\ store.exists

\* ---- C3

\* C3 (as claimed): a setup that ends with host_establishment(is_ok=False) leaves
\* the transport not connected and current_host, the registry, the store and the
\* key path as they were before the call.
C3_FailedSetupLeavesNothing ==
    [][ (Calls("setup") /\ Failures(log') # {}) =>
            /\ ~connected'
            /\ current_host' = current_host
            /\ host_pool' = host_pool
            /\ store' = store
            /\ key_file' = key_file ]_vars

\* ---- C4

EnumeratorTraces == {"consoles_loaded", "local_networks_loaded", "node_found",
                     "nodes_loaded", "exec_command", "save"}

\* C4: a call of setup emits exactly one host_establishment; after a
\* host_establishment(is_ok=False) it raises nothing, emits no consoles_loaded,
\* local_networks_loaded, node_found or nodes_loaded, sends no command and
\* writes no store.
C4_OneEstablishment ==
    LastCall = "setup" =>
        /\ Len(EventsIn(log, "host_establishment")) = 1
        /\ Failures(log) # {} => raised.cls = "none"
        /\ \A i \in Failures(log) :
              \A j \in DOMAIN log : j > i => log[j].ev \notin EnumeratorTraces

C4_Witness ==
    /\ LastCall = "setup"
    /\ \E i \in Failures(log) : log[i].arg.error.site = "prompt"
    /\ current_host # None

\* ---- C5

\* C5: execute_command on a live session raises ReConCommandError with the
\* command, the exit code and both streams when the exit status is not zero,
\* returns (output, error, 0) when it is zero, and raises ReConSSHError, which is
\* no ReConCommandError, when the transport fails.
C5_ExecuteCommandResult ==
    (LastCall = "execute_command" /\ connected) =>
        LET sent == log[1].arg
            resp == sent.resp
        IN  /\ log[1].ev = "exec_command"
            /\ (resp.kind = "done" /\ resp.exit_code # 0) =>
                  /\ ret.raised = "ReConCommandError"
                  /\ ret.command = sent.command
                  /\ ret.exit_code = resp.exit_code
                  /\ ret.output = resp.output
                  /\ ret.error = resp.error
            /\ (resp.kind = "done" /\ resp.exit_code = 0) =>
                  /\ ret.raised = "none"
                  /\ <<ret.output, ret.error, ret.exit_code>> =
                         <<resp.output, resp.error, 0>>
            /\ resp.kind \in {"ssh", "sock"} =>
                  /\ ret.raised = "ReConSSHError"
                  /\ ~IsInstance(ret.raised, "ReConCommandError")

C5_Witness ==
    /\ LastCall = "execute_command"
    /\ connected
    /\ ret.raised = "ReConCommandError"
    /\ ret.exit_code = 137
    /\ ret.output # <<>>
    /\ ret.error # ""

\* ---- C6

NoTrace(l) == \A i \in DOMAIN l : l[i].ev \notin {"exec_command", "save"}

\* C6: an enumerator called with its cache populated sends no command, does not
\* write the store, leaves the registry (so the cached list) as it was, and ends
\* by emitting its loaded event, with the cached list for consoles and networks.
C6_PopulatedCacheIsServed ==
    [][ /\ (Calls("enumerate_consoles") /\ current_host # None
               /\ host_pool[current_host].consoles # <<>>) =>
              /\ NoTrace(log')
              /\ host_pool' = host_pool /\ store' = store
              /\ log' # <<>>
              /\ log'[Len(log')] = [ev |-> "consoles_loaded",
                                    arg |-> host_pool[current_host].consoles]
        /\ (Calls("enumerate_local_networks") /\ current_host # None
               /\ host_pool[current_host].networks # <<>>) =>
              /\ NoTrace(log')
              /\ host_pool' = host_pool /\ store' = store
              /\ log' # <<>>
              /\ log'[Len(log')] = [ev |-> "local_networks_loaded",
                                    arg |-> Map(host_pool[current_host].networks, cidr)]
        /\ (Calls("enumerate_nodes") /\ current_host # None
               /\ host_pool[current_host].nodes # <<>>) =>
              /\ NoTrace(log')
              /\ host_pool' = host_pool /\ store' = store
              /\ ~sweeping'
              /\ log' # <<>>
              /\ log'[Len(log')].ev = "nodes_loaded" ]_vars

C6_Witness ==
    /\ LastCall = "enumerate_consoles"
    /\ NoTrace(log)
    /\ \E i \in DOMAIN log : log[i].ev = "consoles_loaded" /\ Len(log[i].arg) = 2

\* ---- C7

\* The last call was clear_X directly followed by enumerate_X (as two calls, or
\* as the refresh handler that makes both), on a connected session, and is over.
Refreshed(kind) ==
    /\ ~sweeping
    /\ connected
    /\ current_host # None
    /\ \/ LastCall = (CASE kind = "consoles" -> "consoles_refresh"
                        [] kind = "networks" -> "nics_refresh"
                        [] kind = "nodes" -> "nodes_refresh")
       \/ <<CallBefore, LastCall>> =
             (CASE kind = "consoles" -> <<"clear_consoles", "enumerate_consoles">>
                [] kind = "networks" -> <<"clear_local_networks", "enumerate_local_networks">>
                [] kind = "nodes" -> <<"clear_nodes", "enumerate_nodes">>)

Fetches(l) == EventsIn(l, "exec_command")

\* C7 (as claimed): clear_X then enumerate_X on a connected session always sends
\* at least one remote command, for each of the three enumerators.
C7_ClearThenEnumerateFetches ==
    \A kind \in {"consoles", "networks", "nodes"} :
        Refreshed(kind) => Fetches(log) # <<>>

\* C7 (amended): clear_X then enumerate_X on a connected session always sends the
\* fetch again for consoles and for local networks, and for nodes whenever at
\* least one network is cached; with no cached network enumerate_nodes sends
\* nothing.
C7_ClearThenEnumerateFetchesGivenNetwork ==
    /\ \A kind \in {"consoles", "networks"} : Refreshed(kind) => Fetches(log) # <<>>
    /\ Refreshed("nodes") =>
          (Fetches(log) # <<>> <=> host_pool[current_host].networks # <<>>)

C7_Witness ==
    /\ Refreshed("nodes")
    /\ Len(Fetches(log)) = 2
    /\ Len(fetched[current_host].networks) = 0
    /\ host_pool[current_host].nodes # <<>>

\* ---- C8

Caches == {"consoles", "networks", "nodes"}

\* C8 (as claimed): with no clear in between, each cache of a profile is fetched
\* from the remote side at most once, also when the first fetch brought nothing.
C8_FetchedAtMostOnce ==
    \A h \in Hosts, k \in Caches : Len(fetched[h][k]) <= 1

\* C8 (amended): with no clear in between, once a fetch has brought at least one
\* entry no later enumerate fetches again; a fetch that brought no entry leaves
\* the cache empty and the next enumerate fetches again.
C8_NoFetchAfterNonEmptyFetch ==
    \A h \in Hosts, k \in Caches :
        \A i \in DOMAIN fetched[h][k] :
            i < Len(fetched[h][k]) => fetched[h][k][i] = 0

C8_Witness ==
    /\ LastCall = "enumerate_local_networks"
    /\ current_host # None
    /\ fetched[current_host].networks = <<1>>
    /\ NoTrace(log)
    /\ raised.cls = "none"

\* ---- C9

\* The addresses probed in a log, and those whose probe exited 0, in order
Probed(l) == Map(Fetches(l), LAMBDA x : x.arg.command[2])
Reached(l) ==
    Map(SelectSeq(Fetches(l),
                  LAMBDA x : x.arg.resp.kind = "done" /\ x.arg.resp.exit_code = 0),
        LAMBDA x : x.arg.command[2])
Found(l) == Map(EventsIn(l, "node_found"), LAMBDA x : x.arg.node)

Ascending(q) == \A i, j \in DOMAIN q : i < j => q[i] < q[j]

\* A fresh sweep is over: the last call was enumerate_nodes and it probed.
SweepOver ==
    /\ LastCall \in {"enumerate_nodes", "nodes_refresh"}
    /\ ~sweeping
    /\ Fetches(log) # <<>>

FirstNet == host_pool[current_host].networks[1]

Between(net) ==
    {a \in network_address(net)..broadcast_address(net) :
        network_address(net) < a /\ a < broadcast_address(net)}

SweepResult ==
    /\ Found(log) = Reached(log)
    /\ host_pool[current_host].nodes = Reached(log)
    /\ Len(EventsIn(log, "nodes_loaded")) = 1
    /\ log[Len(log)].ev = "nodes_loaded"

Usable(net) ==
    IF net.prefixlen <= 30 THEN Between(net)
    ELSE network_address(net)..broadcast_address(net)

C10_FoundAfterAppend ==
    (LastCall \in {"enumerate_nodes", "nodes_refresh"} /\ Fetches(log) # <<>>) =>
        \A i \in DOMAIN log :
            log[i].ev = "node_found" =>
                /\ log[i - 1].ev = "exec_command"
                /\ log[i - 1].arg.command[2] = log[i].arg.node
                /\ log[i].arg.node \in Elems(log[i].arg.cache)
                /\ \A b \in Elems(log[i].arg.cache) : b <= log[i].arg.node

\* ---- C11

\* This step is a toggle of the tunnel that raises nothing.
Toggled == Calls("toggle_https_tunnel") /\ raised'.cls = "none"

TunnelsAlive == {i \in DOMAIN procs : procs[i].kind = "tunnel" /\ procs[i].alive}

\* C11 (as claimed): every toggle flips the handle: absent becomes present,
\* present becomes absent.
C11_EveryToggleFlips ==
    [][ Calls("toggle_https_tunnel") => ((tunnel_proc = 0) # (tunnel_proc' = 0)) ]_vars

\* C11 (amended): a toggle that raises nothing flips the handle, a toggle that
\* raises (no current host, no key path) and every other step leave it as it
\* is; an opening toggle launches one process, whose handle is kept, and emits
\* tunnel_established; a toggle with the handle present terminates that
\* process, launches none, makes no bind, drops the handle and emits
\* tunnel_closed; at most one tunnel process is alive.
C11_ToggleIsTwoStateFlip ==
    /\ [](Cardinality(TunnelsAlive) <= 1)
    /\ [][ /\ Toggled => ((tunnel_proc = 0) # (tunnel_proc' = 0))
           /\ ~Toggled => tunnel_proc' = tunnel_proc
           /\ (Toggled /\ tunnel_proc = 0) =>
                 /\ Len(procs') = Len(procs) + 1
                 /\ tunnel_proc' = Len(procs')
                 /\ procs'[tunnel_proc'].kind = "tunnel" /\ procs'[tunnel_proc'].alive
                 /\ Len(EventsIn(log', "tunnel_established")) = 1
                 /\ EventsIn(log', "tunnel_closed") = <<>>
           /\ (Calls("toggle_https_tunnel") /\ tunnel_proc # 0) =>
                 /\ raised'.cls = "none"
                 /\ Len(procs') = Len(procs)
                 /\ ~procs'[tunnel_proc].alive
                 /\ tunnel_proc' = 0
                 /\ Len(EventsIn(log', "tunnel_closed")) = 1
                 /\ EventsIn(log', "tunnel_established") = <<>>
                 /\ EventsIn(log', "bind") = <<>> ]_vars

C11_Witness ==
    /\ LastCall = "toggle_https_tunnel"
    /\ Count("toggle_https_tunnel") = 2
    /\ tunnel_proc = 0
    /\ Len(procs) = 1 /\ ~procs[1].alive
    /\ EventsIn(log, "tunnel_closed") # <<>>

\* ---- C12

\* The mapping that the last call has emitted with tunnel_established
Mapping(l) == EventsIn(l, "tunnel_established")[1].arg

Opened(l) == EventsIn(l, "tunnel_established") # <<>>

\* C12 (as claimed): the mapping emitted by an opening toggle on a host with n
\* cached nodes has n entries, and its local ports are pairwise distinct,
\* however the OS answers the binds.
C12_LocalPortsDistinct ==
    (LastCall = "toggle_https_tunnel" /\ Opened(log)) =>
        LET m == Mapping(log)
        IN  /\ Cardinality(DOMAIN m) = Len(host_pool[current_host].nodes)
            /\ \A a, b \in DOMAIN m : a # b => m[a] # m[b]

\* ---- C13

\* C13: an opening toggle launches one process; its argument list is ssh, -N,
\* -i with the key path, user@address of the current host and then one
\* "-L port:node:443" pair per node of the cache as it is, in cache order; the
\* mapping emitted has those nodes as keys, each with the port of its pair,
\* which is the port the bind made for it in this toggle was given.
C13_OneProcessWithForwardPerNode ==
    [][ (Toggled /\ tunnel_proc = 0) =>
            LET nodes == host_pool[current_host].nodes
                args == procs'[Len(procs')].args
                m == Mapping(log')
                bound == EventsIn(log', "bind")
            IN  /\ Len(procs') = Len(procs) + 1
                /\ SubSeq(args, 1, 5) =
                       <<"ssh", "-N", "-i", key_file,
                         <<host_pool[current_host].username,
                           host_pool[current_host].address>>>>
                /\ key_file # 0
                /\ Len(args) = 5 + 2 * Len(nodes)
                /\ Len(bound) = 1 /\ Len(bound[1].arg) = Len(nodes)
                /\ DOMAIN m = Elems(nodes)
                /\ \A i \in DOMAIN nodes :
                      /\ args[4 + 2 * i] = "-L"
                      /\ args[5 + 2 * i] = <<bound[1].arg[i], nodes[i], 443>>
                      /\ m[nodes[i]] = bound[1].arg[i] ]_vars

\* The tunnel is open for the second time, with the same two nodes forwarded
\* from other ports than the first time.
C13_Witness ==
    /\ LastCall = "toggle_https_tunnel"
    /\ Len(procs) = 2 /\ tunnel_proc = 2
    /\ Len(procs[1].args) = 9 /\ Len(procs[2].args) = 9
    /\ procs[1].args[7][2] = procs[2].args[7][2]
    /\ procs[1].args[7][1] # procs[2].args[7][1]
    /\ procs[2].args[7][1] # procs[2].args[9][1]
    /\ Mapping(log)[procs[2].args[9][2]] = procs[2].args[9][1]

\* ---- C14

Attempted(l, step) == EventsIn(l, step) # <<>>

\* C14 (as claimed): a call of stop attempts the close of the transport, the
\* terminate of the tunnel process when there is one, the removal of the key
\* file when there is one, and the bulk termination of the spawned consoles,
\* also when one of these steps raises.
C14_StopAttemptsEveryStep ==
    LastCall = "stop" =>
        /\ Attempted(log, "close")
        /\ tunnel_proc # 0 => Attempted(log, "terminate")
        /\ key_file # 0 => Attempted(log, "remove")
        /\ Attempted(log, "taskkill")

\* ---- C15

\* The entries of a log where the authorized_keys command was sent and failed
DeployFailed(l) ==
    {i \in DOMAIN l : /\ l[i].ev = "exec_command"
                      /\ l[i].arg.command[1] = "echo key > authorized_keys"
                      /\ ~(l[i].arg.resp.kind = "done" /\ l[i].arg.resp.exit_code = 0)}

Events(l) == {l[i].ev : i \in DOMAIN l}

\* C15: in a call of setup, an authorized_keys command that fails (transport
\* error or non-zero exit) is followed at once by a fatal_error event; and a
\* setup that has emitted fatal_error (for that, or for the .ssh directory that
\* cannot be made) still emits the one host_establishment with is_ok=True,
\* keeps current_host set, raises nothing and runs the console and the
\* local-network enumerator to their loaded events.
C15_KeyDeploymentFailureIsNotFatal ==
    LastCall = "setup" =>
        /\ \A i \in DeployFailed(log) :
              /\ i < Len(log)
              /\ log[i + 1].ev = "fatal_error"
        /\ "fatal_error" \in Events(log) =>
              /\ Failures(log) = {}
              /\ Len(EventsIn(log, "host_establishment")) = 1
              /\ current_host # None
              /\ connected
              /\ raised.cls = "none"
              /\ Len(EventsIn(log, "consoles_loaded")) = 1
              /\ Len(EventsIn(log, "local_networks_loaded")) = 1
              /\ \A i, j, k \in DOMAIN log :
                    (/\ log[i].ev = "fatal_error"
                     /\ log[j].ev = "host_establishment"
                     /\ log[k].ev = "consoles_loaded") => (i < j /\ j < k)

\* The .ssh directory could not be made, and the consoles were fetched all the same.
C15_Witness ==
    /\ LastCall = "setup"
    /\ \E i \in DOMAIN log :
          log[i] = [ev |-> "fatal_error", arg |-> "Failed to create .ssh directory"]
    /\ DeployFailed(log) = {}
    /\ \E i \in DOMAIN log : log[i].ev = "exec_command" /\ log[i].arg.command = CmdConsoles
    /\ "local_networks_loaded" \in Events(log)

\* ---- C16

\* This step is a call of setup that reports host_establishment(is_ok=True).
SetupSucceeds ==
    /\ Calls("setup")
    /\ \E i \in DOMAIN log' : log'[i].ev = "host_establishment" /\ log'[i].arg.is_ok

\* The address a call of setup was given, from its first message
Address(l) == l[1].arg[2]

\* The registry as the connect sequence saves it, right after the transport
\* has connected and before any enumerator runs
AfterConnect(l) == EventsIn(l, "save")[1].arg

\* C16: a successful connect to an address that is not in the registry adds one
\* profile under that address, with empty consoles, networks and nodes, and
\* leaves every other entry as it was; a successful connect to an address that
\* is in the registry leaves the whole registry, that profile's username and
\* cached lists included, as it was; in both cases the profile of that address
\* becomes current_host, and the setup that follows changes no other entry.
C16_ConnectRegistersOnce ==
    [][ SetupSucceeds =>
            LET host == Address(log')
                snap == AfterConnect(log')
            IN  /\ current_host' = host
                /\ host \notin DOMAIN host_pool =>
                      /\ DOMAIN snap = DOMAIN host_pool \cup {host}
                      /\ \E u \in Users : snap[host] = HostInfo(host, u)
                      /\ snap[host].consoles = <<>>
                      /\ snap[host].networks = <<>>
                      /\ snap[host].nodes = <<>>
                      /\ \A k \in DOMAIN host_pool : snap[k] = host_pool[k]
                /\ host \in DOMAIN host_pool => snap = host_pool
                /\ DOMAIN host_pool' = DOMAIN snap
                /\ \A k \in DOMAIN snap \ {host} : host_pool'[k] = snap[k] ]_vars

\* A second address has been added next to the stored one, which is untouched.
C16_Witness ==
    /\ LastCall = "setup"
    /\ Failures(log) = {}
    /\ current_host = "h2"
    /\ DOMAIN host_pool = {"h1", "h2"}
    /\ host_pool["h1"] = StoredPool["h1"]
    /\ AfterConnect(log)["h2"] = HostInfo("h2", "u1")

\* ---- C17

WriteThroughCalls ==
    {"setup", "enumerate_consoles", "enumerate_local_networks", "enumerate_nodes",
     "clear_consoles", "clear_local_networks", "clear_nodes"}

\* C17 (as claimed): whenever setup, an enumerator or a clear has returned (a
\* setup that reports a failure, where the write itself may have failed, set
\* aside), the store holds the registry as it is in memory: a new engine would
\* load exactly this registry.
C17_StoreEqualsRegistry ==
    (~sweeping /\ LastCall \in WriteThroughCalls /\ Failures(log) = {}) =>
        _restore_host_data(store) = host_pool

\* ---- C18

\* The store holds what a save of the registry in memory writes.
Saved == store.exists /\ store.data = dumps(host_pool)

\* C18: a registry that is saved and loaded into a new engine comes back
\* value-equal: the new engine, constructed over a store that holds what the
\* save of the old engine's registry wrote, has the same addresses and for
\* each the same username and the same consoles, networks and nodes in the
\* same order; and every registry the engine can hold is what loading its
\* saved form gives.
C18_SaveThenLoadIsEqual ==
    /\ [][ (Calls("__init__") /\ Saved) =>
              /\ DOMAIN host_pool' = DOMAIN host_pool
              /\ \A a \in DOMAIN host_pool :
                    /\ host_pool'[a].address = host_pool[a].address
                    /\ host_pool'[a].username = host_pool[a].username
                    /\ host_pool'[a].consoles = host_pool[a].consoles
                    /\ host_pool'[a].networks = host_pool[a].networks
                    /\ host_pool'[a].nodes = host_pool[a].nodes ]_vars
    /\ [](loads(dumps(host_pool)) = host_pool)

\* A new engine has loaded two profiles, one of them with all three lists filled.
C18_Witness ==
    /\ LastCall = "__init__"
    /\ Saved
    /\ DOMAIN host_pool = {"h1", "h2"}
    /\ host_pool["h1"].consoles # <<>>
    /\ host_pool["h1"].networks # <<>>
    /\ host_pool["h1"].nodes # <<>>
    /\ host_pool["h2"].username = "u1"

\* ---- C20

LoadedEvent(kind) ==
    CASE kind = "consoles" -> "consoles_loaded"
      [] kind = "networks" -> "local_networks_loaded"
      [] kind = "nodes" -> "nodes_loaded"

\* The last call was the enumerator of `kind` (called as such, or by its
\* refresh handler) on an engine with a current host, and it is over.
Enumerated(kind) ==
    /\ ~sweeping
    /\ current_host # None
    /\ LastCall \in (CASE kind = "consoles" -> {"enumerate_consoles", "consoles_refresh"}
                       [] kind = "networks" -> {"enumerate_local_networks", "nics_refresh"}
                       [] kind = "nodes" -> {"enumerate_nodes", "nodes_refresh"})

\* The fetches of a log that failed: for the consoles and the networks a
\* command that did not come back with exit status 0, for the nodes a probe
\* that the transport failed (a probe with a non-zero exit is an address that
\* does not answer)
FailedFetches(l, kind) ==
    {i \in DOMAIN l :
        /\ l[i].ev = "exec_command"
        /\ IF kind = "nodes" THEN l[i].arg.resp.kind # "done"
           ELSE ~(l[i].arg.resp.kind = "done" /\ l[i].arg.resp.exit_code = 0)}

\* C20 (as claimed): a call of an enumerator on an engine with a current host
\* raises nothing and ends with its loaded event, however the fetch ends, and
\* every failed fetch is followed by an activity message before that event.
C20_EnumeratorAlwaysNotifies ==
    \A kind \in {"consoles", "networks", "nodes"} :
        Enumerated(kind) =>
            /\ raised.cls = "none"
            /\ log # <<>>
            /\ log[Len(log)].ev = LoadedEvent(kind)
            /\ \A i \in FailedFetches(log, kind) :
                  /\ i < Len(log)
                  /\ log[i + 1].ev = "activity"

\* ---- C19

\* The threads that have a remote command in flight on the transport
InFlight ==
    (IF app.setup \in {"consoles_inflight", "networks_inflight"} THEN {"setup"} ELSE {})
    \cup (IF app.ui # "idle" THEN {"ui"} ELSE {})
    \cup {i \in DOMAIN app.sweeps : app.sweeps[i].pc = "inflight"}

\* C19 (as claimed): under every interleaving main.py can produce, at most one
\* thread has an execute_command in flight on the transport.
C19_OneOperationAtATime == Cardinality(InFlight) <= 1

\* ---- C21

\* The entries this step has added to the log
Added == SubSeq(log', Len(log) + 1, Len(log'))

\* This step is one turn of the loop of a fresh sweep.
ProbeStep == sweeping /\ todo # <<>> /\ log' # log

NonZeroExit(resp) == resp.kind = "done" /\ resp.exit_code # 0
TransportFailure(resp) == resp.kind \in {"ssh", "sock"}

NodesUnchanged == host_pool'[current_host'].nodes = host_pool[current_host].nodes

Names(l) == {l[i].ev : i \in DOMAIN l}

NothingToSweep ==
    /\ current_host # None
    /\ host_pool[current_host].nodes = <<>>
    /\ host_pool[current_host].networks = <<>>

Populated == current_host # None /\ host_pool[current_host].nodes # <<>>

\* C23: enumerate_nodes with a populated node cache emits one node_found for
\* each cached entry, in the order of the cache, then nodes_loaded, and nothing
\* else: no probe is sent, no sweep started, the cache is as before.
C23_ReplayInCacheOrder ==
    [][ (Calls("enumerate_nodes") /\ Populated) =>
            LET nodes == host_pool[current_host].nodes
            IN  /\ Len(log') = Len(nodes) + 1
                /\ \A i \in DOMAIN nodes :
                       log'[i].ev = "node_found" /\ log'[i].arg.node = nodes[i]
                /\ log'[Len(log')].ev = "nodes_loaded"
                /\ ~sweeping'
                /\ raised'.cls = "none"
                /\ host_pool' = host_pool ]_vars

C23_Witness ==
    /\ LastCall = "enumerate_nodes"
    /\ Populated
    /\ Found(log) = <<IP(10, 0, 0, 1), IP(10, 0, 0, 2)>>
    /\ log[Len(log)].ev = "nodes_loaded"

\* ---- C24

\* The positions of the event ev in a log
At(l, ev) == {i \in DOMAIN l : l[i].ev = ev}

Deliveries(l, h) ==
    LET bound == SelectSeq(l, LAMBDA x : x.ev \in DOMAIN h)
    IN  [i \in DOMAIN bound |-> [by |-> h[bound[i].ev], ev |-> bound[i].ev]]

\* C25: bind(event, handler) sets the entry of the event to the handler and
\* leaves every other entry alone, so an event has one handler, the last one
\* bound; every call then calls, for each event it emits, the handler bound to
\* that event once and no other, and nothing for an event without a handler;
\* start() on an engine without a handler for initialized raises nothing.
C25_OneHandlerPerEvent ==
    /\ [][ (log' # <<>> /\ log'[1].ev = "bind") =>
             LET event == log'[1].arg[1]
                 handler == log'[1].arg[2]
             IN  /\ DOMAIN _event_handlers' = DOMAIN _event_handlers \cup {event}
                 /\ _event_handlers'[event] = handler
                 /\ \A k \in DOMAIN _event_handlers \ {event} :
                        _event_handlers'[k] = _event_handlers[k] ]_vars
    /\ [][ handled' = Deliveries(log', _event_handlers) ]_vars
    /\ [][ Calls("start") =>
             /\ raised'.cls = "none"
             /\ Len(log') = 1 /\ log'[1].ev = "initialized" ]_vars

C25_Witness ==
    /\ LastCall = "setup"
    /\ DOMAIN _event_handlers = {"initialized", "host_establishment"}
    /\ _event_handlers["initialized"] = "on_model_initialize"
    /\ _event_handlers["host_establishment"] = "on_model_activity"
    /\ At(log, "activity") # {}
    /\ handled = <<[by |-> "on_model_activity", ev |-> "host_establishment"]>>

\* ---- C26

\* The cache a call of a clear method empties
Cleared ==
    CASE Calls("clear_consoles") -> "consoles"
      [] Calls("clear_local_networks") -> "networks"
      [] Calls("clear_nodes") -> "nodes"
      [] OTHER -> "none"

\* C26: a call of clear_consoles, clear_local_networks or clear_nodes empties
\* that cache of the current host and changes nothing else of the engine: the
\* two other caches, the other profiles and the keys of the registry, the
\* current host, the transport, the tunnel handle and its processes, the key
\* path and the store are as before; with no current host nothing changes at
\* all.  No event is emitted and nothing raised.
C26_ClearEmptiesOneCache ==
    [][ Cleared # "none" =>
            /\ host_pool' = IF current_host = None THEN host_pool
                            ELSE [host_pool EXCEPT ![current_host][Cleared] = <<>>]
            /\ UNCHANGED <<current_host, connected, key_file, key_files, prompt,
                           tunnel_proc, procs, store, _event_handlers>>
            /\ log' = <<>>
            /\ raised'.cls = "none" ]_vars

C26_Witness ==
    /\ LastCall = "clear_local_networks"
    /\ current_host # None
    /\ tunnel_proc # 0
    /\ key_file # 0
    /\ host_pool[current_host].networks = <<>>
    /\ host_pool[current_host].consoles # <<>>
    /\ host_pool[current_host].nodes # <<>>

\* ---- C27

\* The processes started in a window of their own
Windows == {i \in DOMAIN procs : procs[i].new_console}

\* C27 (as claimed): the title of every console and shell that was spawned
\* matches the filter stop gives to taskkill, so stop selects it.
C27_SpawnedTitlesMatchStopFilter ==
    \A i \in Windows : title_matches(procs[i].title, StopFilter)

\* ---- C28

\* The text a call of spawn_console was given
Descriptor(l) == l[1].arg

HasToken(s) ==
    \E i \in 1..(Len(s) - 3) :
        s[i] = "C" /\ s[i + 1] = "O" /\ s[i + 2] = "M" /\ s[i + 3] \in Digits

NothingSpawned == procs' = procs

\* The call has spawned one process, in a window of its own, for the leftmost
\* COM token of its text.
OneSpawnedOnPort ==
    /\ Len(procs') = Len(procs) + 1
    /\ SubSeq(procs', 1, Len(procs)) = procs
    /\ LET p == procs'[Len(procs')]
           cmd == p.args[Len(p.args)]
       IN  /\ p.new_console /\ p.alive /\ p.kind = "console"
           /\ cmd.post[1] = "plink -serial"
           /\ cmd.post[2] = search_com(Descriptor(log'))
           /\ HasToken(cmd.post[2])
           /\ \A i \in 4..Len(cmd.post[2]) : cmd.post[2][i] \in Digits

NoPortFound ==
    /\ Len(log') = 2
    /\ log'[2] = [ev |-> "activity", arg |-> "No COM port found in console name."]
    /\ NothingSpawned
    /\ raised'.cls = "none"

Initialized == [ev |-> "initialized", arg |-> <<>>]

\* C29: an engine constructed while the store file does not exist has an empty
\* registry and no current host, the construction raises nothing and creates
\* no file; start() then emits initialized, once, and changes nothing.
C29_MissingStoreIsEmptyRegistry ==
    /\ [](calls = <<>> /\ ~store.exists => host_pool = EmptyPool /\ raised.cls = "none")
    /\ [][ (Calls("__init__") /\ ~store.exists) =>
             /\ host_pool' = EmptyPool
             /\ current_host' = None
             /\ raised'.cls = "none"
             /\ store' = store ]_vars
    /\ [][ Calls("start") =>
             /\ log' = <<Initialized>>
             /\ raised'.cls = "none"
             /\ UNCHANGED <<host_pool, store, current_host>> ]_vars

C29_Witness ==
    /\ calls = <<"__init__", "start">>
    /\ ~store.exists
    /\ host_pool = EmptyPool
    /\ log = <<Initialized>>
    /\ raised.cls = "none"

\* ---- C30

\* t is the line l without the white space at its two ends.
IsTrimOf(t, l) ==
    IF \A j \in DOMAIN l : l[j] \in WS THEN t = <<>>
    ELSE \E a, b \in DOMAIN l :
            /\ l[a] \notin WS /\ l[b] \notin WS
            /\ \A j \in DOMAIN l : (j < a \/ j > b) => l[j] \in WS
            /\ t = SubSeq(l, a, b)

\* The lines of an output after its first that are not blank, by position
Kept(out) == {i \in 2..Len(out) : \E j \in DOMAIN out[i] : out[i][j] \notin WS}

\* c is the list of the kept lines of out, trimmed, in their order.
IsConsoleListOf(c, out) ==
    /\ Len(c) = Cardinality(Kept(out))
    /\ \E f \in [DOMAIN c -> Kept(out)] :
           /\ \A i, j \in DOMAIN c : i < j => f[i] < f[j]
           /\ \A i \in DOMAIN c : IsTrimOf(c[i], out[f[i]])

\* This step is a console fetch on an empty cache that the remote side
\* answered with exit status 0.
ConsolesFetched ==
    /\ \/ Calls("enumerate_consoles") /\ current_host # None
             /\ host_pool[current_host].consoles = <<>>
       \/ Calls("consoles_refresh") /\ current_host # None
    /\ Len(Fetches(log')) = 1
    /\ Fetches(log')[1].arg.resp.kind = "done"
    /\ Fetches(log')[1].arg.resp.exit_code = 0

Low(m) == (m[1] \div Pow2(32 - m[2])) * Pow2(32 - m[2])
High(m) == Low(m) + Pow2(32 - m[2]) - 1

\* The blocks of private and of loopback addresses, as (first, last)
PrivateBlocks == { <<IP(0, 0, 0, 0), IP(0, 255, 255, 255)>>,
                   <<IP(10, 0, 0, 0), IP(10, 255, 255, 255)>>,
                   <<IP(127, 0, 0, 0), IP(127, 255, 255, 255)>> }
LoopbackBlock == <<IP(127, 0, 0, 0), IP(127, 255, 255, 255)>>

Inside(m, block) == block[1] <= Low(m) /\ High(m) <= block[2]

\* The pairs of an output whose network is kept, by position
KeptPairs(out) ==
    {i \in DOMAIN out : /\ \E b \in PrivateBlocks : Inside(out[i], b)
                        /\ ~Inside(out[i], LoopbackBlock)}

\* c is the list of the networks of the kept pairs of out, in their order.
IsNetworkListOf(c, out) ==
    /\ Len(c) = Cardinality(KeptPairs(out))
    /\ \E f \in [DOMAIN c -> KeptPairs(out)] :
           /\ \A i, j \in DOMAIN c : i < j => f[i] < f[j]
           /\ \A i \in DOMAIN c :
                  c[i] = [addr |-> Low(out[f[i]]), prefixlen |-> out[f[i]][2]]

\* t is the text a.b.c.d/p of the network net.
IsCidrOf(t, net) ==
    /\ Len(t) = 5
    /\ \A i \in 1..4 : t[i] \in 0..255
    /\ IP(t[1], t[2], t[3], t[4]) = net.addr
    /\ t[5] = net.prefixlen

\* This step is a network fetch on an empty cache that the remote side
\* answered with exit status 0.
NetworksFetched ==
    /\ \/ Calls("enumerate_local_networks") /\ current_host # None
             /\ host_pool[current_host].networks = <<>>
       \/ Calls("nics_refresh") /\ current_host # None
    /\ Len(Fetches(log')) = 1
    /\ Fetches(log')[1].arg.resp.kind = "done"
    /\ Fetches(log')[1].arg.resp.exit_code = 0

\* C31: a network fetch on an empty cache that succeeds leaves as the cache
\* the networks of the (address, mask) pairs of the output, in their order,
\* those kept that lie in a private block and not in the loopback block;
\* local_networks_loaded, the last event, carries the texts a.b.c.d/p of the
\* cache, in cache order.
C31_NetworksArePrivatePairs ==
    [][ NetworksFetched =>
            LET cache == host_pool'[current_host'].networks
                last == log'[Len(log')]
            IN  /\ IsNetworkListOf(cache, Fetches(log')[1].arg.resp.output)
                /\ last.ev = "local_networks_loaded"
                /\ Len(last.arg) = Len(cache)
                /\ \A i \in DOMAIN cache : IsCidrOf(last.arg[i], cache[i])
                /\ raised'.cls = "none" ]_vars

C31_Witness ==
    /\ LastCall = "enumerate_local_networks"
    /\ Len(Fetches(log)) = 1
    /\ Fetches(log)[1].arg.resp.output = << <<IP(127, 0, 0, 1), 8>>, <<IP(10, 0, 0, 5), 31>> >>
    /\ host_pool[current_host].networks = << [addr |-> IP(10, 0, 0, 4), prefixlen |-> 31] >>
    /\ log[Len(log)].arg = << <<10, 0, 0, 4, 31>> >>

\* ---- C32

\* This step is a setup that connected and returned.
SetupSucceeded ==
    /\ Calls("setup")
    /\ raised'.cls = "none"
    /\ \E i \in DOMAIN log' : log'[i].ev = "host_establishment" /\ log'[i].arg.is_ok

Pings(l) == {i \in DOMAIN l : l[i].ev = "exec_command" /\ l[i].arg.command[1] = CmdPing(0)[1]}

\* C32: a setup that connects and returns emits host_establishment(is_ok=True),
\* consoles_loaded and local_networks_loaded once each and in this order; if
\* the node cache of the current host is empty then, it emits no node_found and
\* no nodes_loaded; otherwise it replays the cache (one node_found per entry, in
\* order) after local_networks_loaded and ends with nodes_loaded; in neither
\* case does it send a probe or leave a sweep in progress.
C32_SetupEventOrder ==
    [][ SetupSucceeded =>
            LET he == At(log', "host_establishment")
                cl == At(log', "consoles_loaded")
                ln == At(log', "local_networks_loaded")
                nf == At(log', "node_found")
                nl == At(log', "nodes_loaded")
                nodes == host_pool'[current_host'].nodes
            IN  /\ Cardinality(he) = 1 /\ Cardinality(cl) = 1 /\ Cardinality(ln) = 1
                /\ \A h \in he, c \in cl, n \in ln : h < c /\ c < n
                /\ nodes = <<>> => nf = {} /\ nl = {}
                /\ nodes # <<>> =>
                       /\ Found(log') = nodes
                       /\ nl = {Len(log')}
                       /\ \A n \in ln, f \in nf : n < f /\ f < Len(log')
                /\ Pings(log') = {}
                /\ ~sweeping' ]_vars

C32_Witness ==
    /\ LastCall = "setup"
    /\ raised.cls = "none"
    /\ At(log, "host_establishment") # {}
    /\ Failures(log) = {}
    /\ Found(log) = <<IP(10, 0, 0, 1), IP(10, 0, 0, 2)>>
    /\ log[Len(log)].ev = "nodes_loaded"
    /\ ~sweeping

\* ---- C33

\* The cache a call of the console or of the network enumerator works on
ListCall ==
    CASE Calls("enumerate_consoles") \/ Calls("consoles_refresh") -> "consoles"
      [] Calls("enumerate_local_networks") \/ Calls("nics_refresh") -> "networks"
      [] OTHER -> "none"

LoadedOf(kind) == IF kind = "consoles" THEN "consoles_loaded" ELSE "local_networks_loaded"

Succeeded(resp) == resp.kind = "done" /\ resp.exit_code = 0

\* The rewrites of a log that no successful remote command precedes
BareSaves(l) ==
    {s \in At(l, "save") :
        ~\E p \in At(l, "exec_command") : p < s /\ Succeeded(l[p].arg.resp)}

\* C33 (as claimed): when an enumerator has returned, every rewrite of the
\* store in its log comes after a remote command of that call that succeeded.
C33_SaveOnlyAfterSuccessfulFetch ==
    (~sweeping /\ LastCall \in {"enumerate_consoles", "enumerate_local_networks",
                                 "enumerate_nodes", "consoles_refresh", "nics_refresh",
                                 "nodes_refresh"}) =>
        BareSaves(log) = {}

\* C33 (amended): a call of the console or of the network enumerator whose
\* fetch fails (failure of the transport or non-zero exit) leaves the cache
\* empty and the store as it was, logs no rewrite, and ends with the loaded
\* event carrying the empty list; a call of these two enumerators rewrites the
\* store only after its fetch has succeeded, and then with the registry as the
\* call leaves it.
C33_FailedFetchLeavesStore ==
    /\ [][ (ListCall # "none" /\ Len(Fetches(log')) = 1
               /\ ~Succeeded(Fetches(log')[1].arg.resp) /\ raised'.cls = "none") =>
             /\ host_pool'[current_host'][ListCall] = <<>>
             /\ store' = store
             /\ At(log', "save") = {}
             /\ log'[Len(log')] = [ev |-> LoadedOf(ListCall), arg |-> <<>>] ]_vars
    /\ [][ (ListCall # "none" /\ At(log', "save") # {}) =>
             /\ BareSaves(log') = {}
             /\ Cardinality(At(log', "save")) = 1
             /\ store' = [exists |-> TRUE, data |-> dumps(host_pool')] ]_vars
    /\ [][ (ListCall # "none" /\ At(log', "save") = {}) => store' = store ]_vars

C33_Witness ==
    /\ LastCall = "enumerate_local_networks"
    /\ Len(Fetches(log)) = 1
    /\ TransportFailure(Fetches(log)[1].arg.resp)
    /\ host_pool[current_host].networks = <<>>
    /\ store.exists
    /\ log[Len(log)] = [ev |-> "local_networks_loaded", arg |-> <<>>]

\* ---- C34

NoRepeat(q) == \A i, j \in DOMAIN q : i # j => q[i] # q[j]

\* The one sweep thread of the behaviour was started by the prompt of the
\* local_networks_loaded handler during setup: no button of the devices frame
\* has been clicked.
PromptSweep == Len(app.sweeps) = 1 /\ app.clicks = 0

\* C34 (as claimed): when the local_networks_loaded handler starts the sweep on
\* a new thread during a setup on a host with an empty node cache, every
\* interleaving of the sweep thread and the setup thread delivers node_found
\* at most once per address and nodes_loaded at most once, and exactly once
\* when both threads are over.
C34_OneDeliveryPerAddress ==
    PromptSweep =>
        /\ NoRepeat(app.found)
        /\ app.loaded <= 1
        /\ (app.setup = "done" /\ app.sweeps[1].pc = "done") => app.loaded = 1

\* ---- C35

\* C35 (as claimed): under every interleaving of the nodes-refresh clicks and
\* the sweep threads main.py starts, the node cache of the current host holds
\* no address twice.
C35_NoAddressTwice ==
    current_host # None => NoRepeat(host_pool[current_host].nodes)

\* ---- C36

\* This step is a call of setup with the login l whose connect succeeded.
ConnectedAs(l) ==
    /\ \E s \in Scenarios : Setup(l[1], l[2], s.plan, s.oc, s.on)
    /\ \E i \in DOMAIN log' : log'[i].ev = "host_establishment" /\ log'[i].arg.is_ok

\* C36 (as claimed): after every successful connect the username of the current
\* host is the username supplied to that connect, also when the address was
\* already in the registry under another username.
C36_UsernameIsTheOneSupplied ==
    [][ \A l \in Logins :
            ConnectedAs(l) => /\ current_host' = l[1]
                              /\ host_pool'[current_host'].username = l[2] ]_vars

\* ---- C37

\* C37 (as claimed): for every sequence of setup and stop calls at most one
\* provisioned key file exists on disk at any time, and after a stop that
\* returns none of the key files the engine has created exists.
C37_OneKeyFile ==
    /\ Cardinality(key_files) <= 1
    /\ (LastCall = "stop" /\ raised.cls = "none") => key_files = {}

\* ---- C38

\* C38 (as claimed): a stop that returns on a session with a provisioned key
\* and an open tunnel leaves the engine with no tunnel handle and no key path;
\* a stop called right after a stop that returned does not fail on the key
\* file that is gone; a toggle called right after a stop emits no
\* tunnel_closed.
C38_StopDestroysSession ==
    [][ /\ (Calls("stop") /\ raised'.cls = "none" /\ tunnel_proc # 0 /\ key_file # 0) =>
              (tunnel_proc' = 0 /\ key_file' = 0)
        /\ (Calls("stop") /\ LastCall = "stop" /\ raised.cls = "none") =>
              ~(raised'.cls = "FileNotFoundError" /\ raised'.site = "remove")
        /\ (Calls("toggle_https_tunnel") /\ LastCall = "stop" /\ raised.cls = "none") =>
              EventsIn(log', "tunnel_closed") = <<>> ]_vars

\* ---- C39

\* No connect has succeeded so far: nothing was called, or the one call was a
\* setup that reported host_establishment(is_ok=False).
NeverConnected ==
    \/ calls = <<>>
    \/ calls = <<"setup">> /\ Failures(log) # {}

\* C39 (as claimed): a tunnel handle is present only with a current host and a
\* key path; a toggle called before any successful connect, and a toggle that
\* raises, leave the handle absent and emit no tunnel_established.
C39_HandleNeedsSession ==
    /\ [](tunnel_proc # 0 => (current_host # None /\ key_file # 0))
    /\ [][ (Calls("toggle_https_tunnel") /\ (NeverConnected \/ raised'.cls # "none")) =>
              /\ tunnel_proc' = 0
              /\ EventsIn(log', "tunnel_established") = <<>> ]_vars

\* ---- C40

\* This step is an operation of the engine, not the construction of a new one.
EngineStep == calls' # calls /\ ~Calls("__init__")

\* C40: whenever current_host is set, the registry has an entry under its
\* address and that entry is the current profile; every operation of the
\* engine keeps the entries of the registry, and changes no profile but the
\* one that is current when it ends.
C40_CurrentHostIsRegistered ==
    /\ [](current_host # None =>
            /\ current_host \in DOMAIN host_pool
            /\ host_pool[current_host].address = current_host)
    /\ [][ EngineStep =>
              /\ DOMAIN host_pool \subseteq DOMAIN host_pool'
              /\ \A h \in DOMAIN host_pool :
                    h # current_host' => host_pool'[h] = host_pool[h] ]_vars
    /\ [][ sweeping => DOMAIN host_pool \subseteq DOMAIN host_pool' ]_vars

C40_Witness ==
    /\ LastCall = "setup"
    /\ current_host = "h2"
    /\ DOMAIN host_pool = {"h1", "h2"}
    /\ host_pool["h2"].consoles # <<>>
    /\ host_pool["h1"] = StoredPool["h1"]

====
